---- MODULE Spec2Model ----
(***************************************************************************)
(* Model of the GATT transport-channel core of system/stack/gatt/          *)
(* gatt_main.cc: the table of transport control blocks (gatt_cb.tcb), the  *)
(* channel state of each block, the set of applications holding a link,    *)
(* the link idle timeout, and the callbacks L2CAP and the applications     *)
(* drive them with.                                                        *)
(*                                                                         *)
(* Every handler of gatt_main.cc is an operator from a control-block       *)
(* record s to the control-block record after the call, so that a handler  *)
(* that calls another one is the composition the code performs.  The       *)
(* fields of s:                                                            *)
(*   tcb   gatt_cb.tcb[], one record per slot                              *)
(*   idle  the idle timeout of the LE link to each peer address            *)
(*   cm    connection_manager: the applications connecting to each peer    *)
(*   dcr   tGATT_REG::direct_connect_request of each application           *)
(*   ev    the calls made to the lower layer and to the applications       *)
(*         during the handler, in order                                    *)
(*   ret   the value the handler returns                                   *)
(*   upd   the value gatt_update_app_hold_link_status returned last        *)
(***************************************************************************)
EXTENDS Integers, Sequences, FiniteSets, TLC

\* Number of slots of gatt_cb.tcb (GATT_MAX_PHY_CHANNEL), bounded.
MaxTcb == 2

Slots == 0 .. (MaxTcb - 1)

\* A null p_tcb.
NoTcb == -1

\* Peer addresses: an identity address and a resolvable private address
\* (known on the LE transport only); RawAddress::kEmpty for a reset block.
IdentityAddr == "A"
Rpa == "B"
Addrs == {IdentityAddr, Rpa}
EmptyAddr == "empty"

BT_TRANSPORT_BR_EDR == "BR_EDR"
BT_TRANSPORT_LE == "LE"
Transports == {BT_TRANSPORT_BR_EDR, BT_TRANSPORT_LE}

\* The (address, transport) pairs the applications ask connections for: the
\* resolvable private address is met on incoming LE connections only.
PeerKeys == {<<IdentityAddr, BT_TRANSPORT_LE>>,
             <<IdentityAddr, BT_TRANSPORT_BR_EDR>>}

\* tGATT_CH_STATE
GATT_CH_CLOSE == "CLOSE"
GATT_CH_CLOSING == "CLOSING"
GATT_CH_CONN == "CONN"
GATT_CH_CFG == "CFG"
GATT_CH_OPEN == "OPEN"

\* The fixed channel id of ATT over LE.
L2CAP_ATT_CID == 4
\* The dynamic channel ids L2CAP hands out for ATT over BR/EDR (0 is "no
\* channel").
EnvCids == {64}

GATT_LINK_NO_IDLE_TIMEOUT == "NO_IDLE_TIMEOUT"
GATT_LINK_IDLE_TIMEOUT_WHEN_NO_APP == "WHEN_NO_APP"
\* fixed_reg.default_idle_tout of gatt_init: the idle timeout of a link of the
\* ATT fixed channel that GATT has set no timeout for.
default_idle_tout == GATT_LINK_NO_IDLE_TIMEOUT

GATT_DEF_BLE_MTU_SIZE == 23
L2CAP_DEFAULT_MTU == 672
\* The MTU a peer offers in a configuration message (0: none present).
EnvMtus == {0}

\* tGATT_DISCONN_REASON / tGATT_STATUS values the handlers pass on.
GATT_CONN_OK == "GATT_CONN_OK"
GATT_CONN_L2C_FAILURE == "GATT_CONN_L2C_FAILURE"
GATT_CONN_TERMINATE_PEER_USER == "GATT_CONN_TERMINATE_PEER_USER"
GATT_CONN_TERMINATE_LOCAL_HOST == "GATT_CONN_TERMINATE_LOCAL_HOST"

\* Application interfaces (gatt_if) of gatt_cb.cl_rcb; the ones that call in.
GattIfs == {1, 2, 3}
Callers == {1, 2}

\* The settings of the feature flags the model runs under: the default (none
\* enabled) and each of the two connection flags enabled on its own.
FlagSettings ==
  {f \in [use_unified_connection_manager : BOOLEAN,
          gatt_reconnect_on_bt_on_fix : BOOLEAN,
          gatt_drop_acl_on_out_of_resources_fix : {FALSE},
          enumerate_gatt_errors : {FALSE}] :
     ~(f.use_unified_connection_manager /\ f.gatt_reconnect_on_bt_on_fix)}

\* The default, and gatt_drop_acl_on_out_of_resources_fix enabled on its own.
DropAclFlagSettings ==
  [use_unified_connection_manager : {FALSE},
   gatt_reconnect_on_bt_on_fix : {FALSE},
   gatt_drop_acl_on_out_of_resources_fix : BOOLEAN,
   enumerate_gatt_errors : {FALSE}]

\* The default, and enumerate_gatt_errors enabled on its own.
EnumerateFlagSettings ==
  [use_unified_connection_manager : {FALSE},
   gatt_reconnect_on_bt_on_fix : {FALSE},
   gatt_drop_acl_on_out_of_resources_fix : {FALSE},
   enumerate_gatt_errors : BOOLEAN]

VARIABLES
  tcb,      \* gatt_cb.tcb
  idle,     \* idle timeout of the LE link per peer address
  cm,       \* connection_manager: apps connecting to each address
  dcr,      \* direct_connect_request of each application
  cl_rcb,   \* gatt_cb.cl_rcb: registration of each application
  flags,    \* feature flags / init flags
  last,     \* the last handler run: its name and the calls it made
  prev,     \* per slot, the peer and channel id of the session freed last
  avct_lcb, \* avct_cb.lcb: the AVCTP control channel of each link
  avct_bcb, \* avct_cb.bcb: the AVCTP browsing channel of each link
  srv_chg,  \* gatt_cb.srv_chg_clt_q, the bonded peers, gatt_cb.handle_of_h_r
  a2dp_pending_cmd_, \* A2dpTransport::a2dp_pending_cmd_
  av_stream, \* the A2DP stream of btif_av: closed, open (ready) or started
  active_hal_interface \* "nullptr", or the software or offloading interface

vars ==
  <<tcb, idle, cm, dcr, cl_rcb, flags, last, prev, avct_lcb, avct_bcb, srv_chg,
    a2dp_pending_cmd_, av_stream,
    active_hal_interface>>

\* tGATT_TCB(): a reset block.
EmptyTcb ==
  [in_use |-> FALSE, peer_bda |-> EmptyAddr, transport |-> "NONE",
   ch_state |-> GATT_CH_CLOSE, att_lcid |-> 0, app_hold_link |-> {},
   payload_size |-> 0]

\* prev of a slot no session was freed from.
NoSession == <<EmptyAddr, 0>>

\* The control block a handler starts from.
Cur == [tcb |-> tcb, idle |-> idle, cm |-> cm, dcr |-> dcr, srv |-> srv_chg,
        ev |-> <<>>, ret |-> TRUE, upd |-> TRUE]

Emit(s, e) == [s EXCEPT !.ev = Append(@, e)]

Min(S) == CHOOSE x \in S : \A y \in S : x <= y

(***************************************************************************)
(* The service changed clients.  srv.clt is gatt_cb.srv_chg_clt_q, srv.ind *)
(* counts, per peer, the indications sent when a session opened since the  *)
(* database last changed, srv.interop is the peers whose stored name is    *)
(* matched by INTEROP_GATTC_NO_SERVICE_CHANGED_IND.                        *)
(***************************************************************************)

\* The count of indications saturates here.
MaxInd == 2

\* A peer that is not in the list.
NoSrvChgClt == [listed |-> FALSE, srv_changed |-> FALSE]

\* No bonded peer and an empty list.
NoSrvChg ==
  [clt |-> [a \in Addrs |-> NoSrvChgClt], ind |-> [a \in Addrs |-> 0],
   bonded |-> {}, handle_of_h_r |-> TRUE, interop |-> {}]

\* btif_storage_get_stored_remote_name finds a name for the peer and
\* interop_match_name(INTEROP_GATTC_NO_SERVICE_CHANGED_IND) matches it.
interop_match_name(s, bda) == bda \in s.srv.interop

gatt_is_bda_in_the_srv_chg_clt_list(s, bda) == s.srv.clt[bda].listed

btm_sec_is_a_bonded_dev(s, bda) == bda \in s.srv.bonded

gatt_add_a_bonded_dev_for_srv_chg(s, bda) ==
  Emit([s EXCEPT !.srv.clt[bda] = [listed |-> TRUE, srv_changed |-> FALSE]],
       <<"p_srv_chg_callback", "GATTS_SRV_CHG_CMD_ADD_CLIENT", bda>>)

\* The lookup the connect and disconnect callbacks start with: a bonded peer
\* that is not in the list is added to it.
AddIfBonded(s, bda) ==
  IF ~gatt_is_bda_in_the_srv_chg_clt_list(s, bda)
     /\ btm_sec_is_a_bonded_dev(s, bda)
  THEN gatt_add_a_bonded_dev_for_srv_chg(s, bda)
  ELSE s

\* gatt_profile_find_conn_id_by_bd_addr finds a connection of the peer: the
\* peer has an open session.
ProfileConnected(s, bda) ==
  \E i \in DOMAIN s.tcb :
    /\ s.tcb[i].in_use
    /\ s.tcb[i].peer_bda = bda
    /\ s.tcb[i].ch_state = GATT_CH_OPEN

\* GATTS_HandleValueIndication of the service changed characteristic: the
\* indication is queued and the peer is no longer owed one.
GATTS_HandleValueIndication(s, bda) ==
  Emit([s EXCEPT !.srv.clt[bda].srv_changed = FALSE],
       <<"GATTS_HandleValueIndication", bda>>)

\* gatt_send_srv_chg_ind that leaves the peer owed an indication.
gatt_send_srv_chg_ind_keeps_flag(s, peer_bda) ==
  IF ~s.srv.handle_of_h_r \/ ~ProfileConnected(s, peer_bda) THEN s
  ELSE Emit(s, <<"GATTS_HandleValueIndication", peer_bda>>)

gatt_send_srv_chg_ind(s, peer_bda) ==
  IF ~s.srv.handle_of_h_r THEN s
  ELSE IF ~ProfileConnected(s, peer_bda) THEN s
  ELSE GATTS_HandleValueIndication(s, peer_bda)

\* The indications a handler has asked for so far for the peer.
IndicationsTo(s, bda) ==
  Cardinality({k \in DOMAIN s.ev :
                 s.ev[k] = <<"GATTS_HandleValueIndication", bda>>})

\* gatt_chk_srv_chg, called when a session opens; srv.ind counts what it sent.
gatt_chk_srv_chg(s, bda) ==
  IF s.srv.clt[bda].srv_changed
  THEN LET s1 == gatt_send_srv_chg_ind(s, bda)
           sent == IndicationsTo(s1, bda) - IndicationsTo(s, bda)
       IN [s1 EXCEPT !.srv.ind[bda] = IF @ + sent > MaxInd THEN MaxInd
                                      ELSE @ + sent]
  ELSE s

(***************************************************************************)
(* Table helpers (gatt_utils.cc) and the idle timeout (gatt_api.cc).       *)
(***************************************************************************)

\* conn_id of (tcb_idx, gatt_if): the index in the high byte.
GATT_CREATE_CONN_ID(tcb_idx, gatt_if) == tcb_idx * 256 + gatt_if

\* find(address, transport): the session of the pair, or none.
gatt_find_tcb_by_addr(s, bda, transport) ==
  LET hit == {i \in Slots : /\ s.tcb[i].in_use
                            /\ s.tcb[i].peer_bda = bda
                            /\ s.tcb[i].transport = transport}
  IN IF hit = {} THEN NoTcb ELSE Min(hit)

\* The session whose channel has this id, or none.
gatt_find_tcb_by_cid(s, lcid) ==
  LET hit == {i \in Slots : s.tcb[i].in_use /\ s.tcb[i].att_lcid = lcid}
  IN IF hit = {} THEN NoTcb ELSE Min(hit)

\* allocate(address, transport): the existing session of the pair, else the
\* first free slot, else none (Exhausted).
AllocSlot(s, bda, transport) ==
  LET j == gatt_find_tcb_by_addr(s, bda, transport)
      free == {i \in Slots : ~s.tcb[i].in_use}
  IN IF j # NoTcb THEN j ELSE IF free = {} THEN NoTcb ELSE Min(free)

gatt_allocate_tcb_by_bdaddr(s, bda, transport) ==
  LET i == AllocSlot(s, bda, transport)
  IN IF i = NoTcb \/ s.tcb[i].in_use THEN s
     ELSE [s EXCEPT !.tcb[i] = [EmptyTcb EXCEPT !.in_use = TRUE,
                                                !.peer_bda = bda,
                                                !.transport = transport]]

\* GATT_SetIdleTimeout: sets the idle timeout of the link to bda when a
\* session exists for it.
GATT_SetIdleTimeout(s, bda, idle_tout, transport) ==
  IF gatt_find_tcb_by_addr(s, bda, transport) = NoTcb THEN s
  ELSE Emit([s EXCEPT !.idle[bda] = idle_tout],
            <<"GATT_SetIdleTimeout", bda, idle_tout>>)

\* The disconnection callbacks of gatt_cleanup_upon_disc, application by
\* application.
RECURSIVE DiscCbacks(_, _, _, _, _, _)
DiscCbacks(s, n, i, bda, reason, transport) ==
  IF n > Cardinality(GattIfs) THEN s
  ELSE DiscCbacks(
         IF cl_rcb[n].in_use /\ cl_rcb[n].p_conn_cb
         THEN Emit(s, <<"conn_cb", n, bda, GATT_CREATE_CONN_ID(i, n), FALSE,
                        reason, transport>>)
         ELSE s,
         n + 1, i, bda, reason, transport)

\* free(session): the channel is Closed, every application is told, and the
\* block is reset (holder set cleared, slot back in the free pool).
gatt_cleanup_upon_disc(s, bda, reason, transport) ==
  LET i == gatt_find_tcb_by_addr(s, bda, transport)
  IN IF i = NoTcb THEN s
     ELSE LET s1 == [s EXCEPT !.tcb[i].ch_state = GATT_CH_CLOSE]
              s2 == DiscCbacks(s1, 1, i, bda, reason, transport)
          IN [s2 EXCEPT !.tcb[i] = EmptyTcb,
                        !.idle[bda] = IF transport = BT_TRANSPORT_LE
                                      THEN default_idle_tout ELSE @]

(***************************************************************************)
(* gatt_main.cc                                                            *)
(***************************************************************************)

gatt_set_ch_state(s, i, ch_state) ==
  IF i = NoTcb THEN s ELSE [s EXCEPT !.tcb[i].ch_state = ch_state]

gatt_get_ch_state(s, i) ==
  IF i = NoTcb THEN GATT_CH_CLOSE ELSE s.tcb[i].ch_state

\* gatt_l2cif_disconnect waiting in Closing for the disconnection to complete.
gatt_l2cif_disconnect_closing(s, lcid) ==
  gatt_set_ch_state(Emit(s, <<"L2CA_DisconnectReq", lcid>>),
                    gatt_find_tcb_by_cid(s, lcid), GATT_CH_CLOSING)

\* gatt_l2cif_disconnect: asks L2CAP to disconnect the channel and frees the
\* session that owns it.
gatt_l2cif_disconnect(s, lcid) ==
  LET s1 == Emit(s, <<"L2CA_DisconnectReq", lcid>>)
      i == gatt_find_tcb_by_cid(s1, lcid)
  IN IF i = NoTcb THEN s1
     ELSE gatt_cleanup_upon_disc(AddIfBonded(s1, s1.tcb[i].peer_bda),
                                 s1.tcb[i].peer_bda,
                                 GATT_CONN_TERMINATE_LOCAL_HOST,
                                 BT_TRANSPORT_BR_EDR)

\* gatt_disconnect without the early return for a session that is closing.
gatt_disconnect_closing_again(s, i) ==
  IF i = NoTcb THEN [s EXCEPT !.ret = FALSE]
  ELSE IF s.tcb[i].att_lcid = L2CAP_ATT_CID THEN
    IF gatt_get_ch_state(s, i) = GATT_CH_OPEN
    THEN [gatt_set_ch_state(
            Emit(s, <<"L2CA_RemoveFixedChnl", s.tcb[i].peer_bda>>),
            i, GATT_CH_CLOSING) EXCEPT !.ret = TRUE]
    ELSE [gatt_cleanup_upon_disc(
            IF flags.use_unified_connection_manager
            THEN [s EXCEPT !.cm[s.tcb[i].peer_bda] = {}] ELSE s,
            s.tcb[i].peer_bda, GATT_CONN_TERMINATE_LOCAL_HOST,
            s.tcb[i].transport) EXCEPT !.ret = TRUE]
  ELSE IF gatt_get_ch_state(s, i) \in {GATT_CH_OPEN, GATT_CH_CFG}
  THEN [gatt_l2cif_disconnect(s, s.tcb[i].att_lcid) EXCEPT !.ret = TRUE]
  ELSE [s EXCEPT !.ret = TRUE]

\* gatt_disconnect leaving an Open fixed channel Closed, not Closing.
gatt_disconnect_to_close(s, i) ==
  IF i = NoTcb THEN [s EXCEPT !.ret = FALSE]
  ELSE IF gatt_get_ch_state(s, i) = GATT_CH_OPEN
          /\ s.tcb[i].att_lcid = L2CAP_ATT_CID
  THEN [gatt_set_ch_state(
          Emit(s, <<"L2CA_RemoveFixedChnl", s.tcb[i].peer_bda>>),
          i, GATT_CH_CLOSE) EXCEPT !.ret = TRUE]
  ELSE [s EXCEPT !.ret = TRUE]

\* gatt_disconnect disconnecting a dynamic channel only when it is Open.
gatt_disconnect_open_only(s, i) ==
  IF i = NoTcb THEN [s EXCEPT !.ret = FALSE]
  ELSE IF gatt_get_ch_state(s, i) = GATT_CH_CLOSING
  THEN [s EXCEPT !.ret = TRUE]
  ELSE IF s.tcb[i].att_lcid = L2CAP_ATT_CID THEN
    IF gatt_get_ch_state(s, i) = GATT_CH_OPEN
    THEN [gatt_set_ch_state(
            Emit(s, <<"L2CA_RemoveFixedChnl", s.tcb[i].peer_bda>>),
            i, GATT_CH_CLOSING) EXCEPT !.ret = TRUE]
    ELSE [gatt_cleanup_upon_disc(
            IF flags.use_unified_connection_manager
            THEN [s EXCEPT !.cm[s.tcb[i].peer_bda] = {}] ELSE s,
            s.tcb[i].peer_bda, GATT_CONN_TERMINATE_LOCAL_HOST,
            s.tcb[i].transport) EXCEPT !.ret = TRUE]
  ELSE IF gatt_get_ch_state(s, i) = GATT_CH_OPEN
  THEN [gatt_l2cif_disconnect(s, s.tcb[i].att_lcid) EXCEPT !.ret = TRUE]
  ELSE [s EXCEPT !.ret = TRUE]

\* gatt_disconnect that awaits the teardown of a dynamic channel in
\* GATT_CH_CLOSING and frees an open fixed channel at once.
gatt_disconnect_awaits(s, i) ==
  IF i = NoTcb THEN [s EXCEPT !.ret = FALSE]
  ELSE IF gatt_get_ch_state(s, i) # GATT_CH_OPEN THEN [s EXCEPT !.ret = TRUE]
  ELSE IF s.tcb[i].att_lcid = L2CAP_ATT_CID
  THEN [gatt_cleanup_upon_disc(s, s.tcb[i].peer_bda,
                               GATT_CONN_TERMINATE_LOCAL_HOST,
                               s.tcb[i].transport) EXCEPT !.ret = TRUE]
  ELSE [gatt_set_ch_state(Emit(s, <<"L2CA_DisconnectReq", s.tcb[i].att_lcid>>),
                          i, GATT_CH_CLOSING) EXCEPT !.ret = TRUE]

gatt_disconnect(s, i) ==
  IF i = NoTcb THEN [s EXCEPT !.ret = FALSE]
  ELSE
    LET ch_state == gatt_get_ch_state(s, i)
        p == s.tcb[i]
    IN IF ch_state = GATT_CH_CLOSING THEN [s EXCEPT !.ret = TRUE]
       ELSE IF p.att_lcid = L2CAP_ATT_CID THEN
         IF ch_state = GATT_CH_OPEN
         THEN [gatt_set_ch_state(
                 Emit(s, <<"L2CA_RemoveFixedChnl", p.peer_bda>>),
                 i, GATT_CH_CLOSING) EXCEPT !.ret = TRUE]
         ELSE LET s1 == IF flags.use_unified_connection_manager
                        THEN [s EXCEPT !.cm[p.peer_bda] = {}]
                        ELSE s
              IN [gatt_cleanup_upon_disc(s1, p.peer_bda,
                                         GATT_CONN_TERMINATE_LOCAL_HOST,
                                         p.transport) EXCEPT !.ret = TRUE]
       ELSE IF ch_state = GATT_CH_OPEN \/ ch_state = GATT_CH_CFG
         THEN [gatt_l2cif_disconnect(s, p.att_lcid) EXCEPT !.ret = TRUE]
         ELSE [s EXCEPT !.ret = TRUE]

\* gatt_update_app_hold_link_status answering whether the set changed: false
\* for an application that holds the link already.
gatt_update_app_hold_link_status_inserted(s, gatt_if, i, is_add) ==
  IF is_add
  THEN [Emit(s, IF gatt_if \in s.tcb[i].app_hold_link
                THEN <<"hold_existing", gatt_if>>
                ELSE <<"hold_added", gatt_if>>)
          EXCEPT !.tcb[i].app_hold_link = @ \cup {gatt_if},
                 !.upd = gatt_if \notin s.tcb[i].app_hold_link]
  ELSE IF gatt_if \notin s.tcb[i].app_hold_link
       THEN [Emit(s, <<"hold_missing", gatt_if>>) EXCEPT !.upd = FALSE]
       ELSE [Emit(s, <<"hold_removed", gatt_if>>)
               EXCEPT !.tcb[i].app_hold_link = @ \ {gatt_if}, !.upd = TRUE]

\* gatt_update_app_hold_link_status answering true for an application that
\* does not hold the link.
gatt_update_app_hold_link_status_erased(s, gatt_if, i, is_add) ==
  IF is_add
  THEN [Emit(s, IF gatt_if \in s.tcb[i].app_hold_link
                THEN <<"hold_existing", gatt_if>>
                ELSE <<"hold_added", gatt_if>>)
          EXCEPT !.tcb[i].app_hold_link = @ \cup {gatt_if}, !.upd = TRUE]
  ELSE [Emit(s, IF gatt_if \notin s.tcb[i].app_hold_link
                THEN <<"hold_missing", gatt_if>>
                ELSE <<"hold_removed", gatt_if>>)
          EXCEPT !.tcb[i].app_hold_link = @ \ {gatt_if}, !.upd = TRUE]

gatt_update_app_hold_link_status(s, gatt_if, i, is_add) ==
  IF is_add
  THEN [Emit(s, IF gatt_if \in s.tcb[i].app_hold_link
                THEN <<"hold_existing", gatt_if>>
                ELSE <<"hold_added", gatt_if>>)
          EXCEPT !.tcb[i].app_hold_link = @ \cup {gatt_if}, !.upd = TRUE]
  ELSE IF gatt_if \notin s.tcb[i].app_hold_link
       THEN [Emit(s, <<"hold_missing", gatt_if>>) EXCEPT !.upd = FALSE]
       ELSE [Emit(s, <<"hold_removed", gatt_if>>)
               EXCEPT !.tcb[i].app_hold_link = @ \ {gatt_if}, !.upd = TRUE]

\* CheckAclLink leaving the idle timeout alone when a holder is added.
CheckAclLink_no_disable(s, i, is_add, check_acl_link, is_valid_handle) ==
  IF ~s.upd \/ ~check_acl_link \/ is_add \/ s.tcb[i].app_hold_link # {}
  THEN s
  ELSE IF s.tcb[i].att_lcid = L2CAP_ATT_CID /\ is_valid_handle
  THEN GATT_SetIdleTimeout(Emit(s, <<"EattDisconnect", s.tcb[i].peer_bda>>),
                           s.tcb[i].peer_bda,
                           GATT_LINK_IDLE_TIMEOUT_WHEN_NO_APP,
                           s.tcb[i].transport)
  ELSE [gatt_disconnect(s, i) EXCEPT !.ret = s.ret]

\* CheckAclLink disabling the idle timeout when the last holder is gone.
CheckAclLink_no_idle(s, i, is_add, check_acl_link, is_valid_handle) ==
  IF ~s.upd \/ ~check_acl_link \/ (~is_add /\ s.tcb[i].app_hold_link # {})
  THEN s
  ELSE IF s.tcb[i].att_lcid = L2CAP_ATT_CID /\ is_valid_handle
  THEN GATT_SetIdleTimeout(s, s.tcb[i].peer_bda, GATT_LINK_NO_IDLE_TIMEOUT,
                           s.tcb[i].transport)
  ELSE IF is_add THEN s
  ELSE [gatt_disconnect(s, i) EXCEPT !.ret = s.ret]

\* gatt_update_app_use_link_flag once the holder set is updated: the idle
\* timeout of a fixed channel, the disconnection of a dynamic one.
\* is_valid_handle is what BTM_GetHCIConnHandle answers for the peer: whether
\* the link-layer connection exists.
CheckAclLink(s, i, is_add, check_acl_link, is_valid_handle) ==
  IF ~s.upd THEN s
  ELSE IF ~check_acl_link THEN s
  ELSE IF is_add THEN
    IF s.tcb[i].att_lcid = L2CAP_ATT_CID /\ is_valid_handle
    THEN GATT_SetIdleTimeout(s, s.tcb[i].peer_bda, GATT_LINK_NO_IDLE_TIMEOUT,
                             s.tcb[i].transport)
    ELSE s
  ELSE IF s.tcb[i].app_hold_link = {} THEN
    IF s.tcb[i].att_lcid = L2CAP_ATT_CID /\ is_valid_handle
    THEN GATT_SetIdleTimeout(Emit(s, <<"EattDisconnect", s.tcb[i].peer_bda>>),
                             s.tcb[i].peer_bda,
                             GATT_LINK_IDLE_TIMEOUT_WHEN_NO_APP,
                             s.tcb[i].transport)
    ELSE [gatt_disconnect(s, i) EXCEPT !.ret = s.ret]
  ELSE s

gatt_update_app_use_link_flag(s, gatt_if, i, is_add, check_acl_link, is_valid_handle) ==
  IF i = NoTcb THEN s
  ELSE CheckAclLink(gatt_update_app_hold_link_status(s, gatt_if, i, is_add),
                    i, is_add, check_acl_link, is_valid_handle)

\* acl_create_le_connection_with_id: on success the connection manager has
\* the application connecting to the address.
acl_create_le_connection_with_id(s, gatt_if, bda, ok) ==
  IF ok THEN [s EXCEPT !.cm[bda] = @ \cup {gatt_if}, !.ret = TRUE]
  ELSE [s EXCEPT !.ret = FALSE]

\* l2c_lcid is what L2CA_ConnectReq2 returns, le_ok what
\* acl_create_le_connection_with_id returns.
gatt_connect(s, rem_bda, i, transport, gatt_if, l2c_lcid, le_ok, is_valid_handle) ==
  LET s1 == IF gatt_get_ch_state(s, i) # GATT_CH_OPEN
            THEN gatt_set_ch_state(s, i, GATT_CH_CONN) ELSE s
  IN IF transport # BT_TRANSPORT_LE
     THEN [Emit(s1, <<"L2CA_ConnectReq2", rem_bda>>)
             EXCEPT !.tcb[i].att_lcid = l2c_lcid, !.ret = (l2c_lcid # 0)]
     ELSE IF gatt_get_ch_state(s1, i) = GATT_CH_OPEN
     THEN [gatt_update_app_use_link_flag(s1, gatt_if, i, TRUE, TRUE,
                                         is_valid_handle) EXCEPT !.ret = TRUE]
     ELSE acl_create_le_connection_with_id(
            [s1 EXCEPT !.tcb[i].att_lcid = L2CAP_ATT_CID],
            gatt_if, rem_bda, le_ok)

\* gatt_act_connect reporting success when no block is left.
gatt_act_connect_full_ok(s, gatt_if, bd_addr, transport, l2c_lcid, le_ok, is_valid_handle) ==
  IF gatt_find_tcb_by_addr(s, bd_addr, transport) # NoTcb
  THEN [s EXCEPT !.ret = TRUE]
  ELSE IF AllocSlot(s, bd_addr, transport) = NoTcb
  THEN [s EXCEPT !.ret = TRUE]
  ELSE gatt_connect(gatt_allocate_tcb_by_bdaddr(s, bd_addr, transport),
                    bd_addr, AllocSlot(s, bd_addr, transport), transport,
                    gatt_if, l2c_lcid, le_ok, is_valid_handle)

\* gatt_act_connect leaving the block allocated when gatt_connect failed.
gatt_act_connect_keeps_block(s, gatt_if, bd_addr, transport, l2c_lcid, le_ok, is_valid_handle) ==
  IF gatt_find_tcb_by_addr(s, bd_addr, transport) # NoTcb
  THEN [s EXCEPT !.ret = TRUE]
  ELSE IF AllocSlot(s, bd_addr, transport) = NoTcb
  THEN [s EXCEPT !.ret = FALSE]
  ELSE gatt_connect(gatt_allocate_tcb_by_bdaddr(s, bd_addr, transport),
                    bd_addr, AllocSlot(s, bd_addr, transport), transport,
                    gatt_if, l2c_lcid, le_ok, is_valid_handle)

\* gatt_act_connect connecting again over a session that is closing.
gatt_act_connect_over_closing(s, gatt_if, bd_addr, transport, l2c_lcid, le_ok, is_valid_handle) ==
  IF gatt_find_tcb_by_addr(s, bd_addr, transport) = NoTcb
  THEN [s EXCEPT !.ret = FALSE]
  ELSE gatt_connect(s, bd_addr, gatt_find_tcb_by_addr(s, bd_addr, transport),
                    transport, gatt_if, l2c_lcid, le_ok, is_valid_handle)

gatt_act_connect(s, gatt_if, bd_addr, transport, l2c_lcid, le_ok, is_valid_handle) ==
  LET i == gatt_find_tcb_by_addr(s, bd_addr, transport)
  IN IF i # NoTcb THEN
       LET st == gatt_get_ch_state(s, i)
       IN IF /\ st = GATT_CH_OPEN
             /\ s.tcb[i].app_hold_link = {}
             /\ transport = BT_TRANSPORT_LE
          THEN gatt_connect(s, bd_addr, i, transport, gatt_if, l2c_lcid,
                            le_ok, is_valid_handle)
          ELSE IF st = GATT_CH_CLOSING THEN [s EXCEPT !.ret = FALSE]
          ELSE [s EXCEPT !.ret = TRUE]
     ELSE
       LET s1 == gatt_allocate_tcb_by_bdaddr(s, bd_addr, transport)
           j == gatt_find_tcb_by_addr(s1, bd_addr, transport)
       IN IF j = NoTcb THEN [s1 EXCEPT !.ret = FALSE]
          ELSE LET s2 == gatt_connect(s1, bd_addr, j, transport, gatt_if,
                                      l2c_lcid, le_ok, is_valid_handle)
               IN IF ~s2.ret
                  THEN [s2 EXCEPT !.tcb[j] = EmptyTcb, !.ret = FALSE]
                  ELSE [s2 EXCEPT !.ret = TRUE]

\* The applications gatt_send_conn_cback takes as connecting to the peer.
ConnectingApps(s, i) ==
  IF flags.use_unified_connection_manager THEN {}
  ELSE s.cm[s.tcb[i].peer_bda]

\* The loop of gatt_send_conn_cback, for application n: the application
\* connecting to the peer holds the link, ...
AppHoldsLink(s, n, i, apps, is_valid_handle) ==
  IF n \in apps
  THEN gatt_update_app_use_link_flag(s, n, i, TRUE, TRUE, is_valid_handle)
  ELSE s

\* ... so does the one with a direct connect request for the peer, ...
AppDirectConnect(s, n, i, is_valid_handle) ==
  IF flags.gatt_reconnect_on_bt_on_fix /\ s.tcb[i].peer_bda \in s.dcr[n]
  THEN [gatt_update_app_use_link_flag(s, n, i, TRUE, TRUE, is_valid_handle)
          EXCEPT !.dcr[n] = @ \ {s.tcb[i].peer_bda}]
  ELSE s

\* ... and its connection callback is called.
AppConnCback(s, n, i) ==
  IF cl_rcb[n].p_conn_cb
  THEN Emit(s, <<"conn_cb", n, s.tcb[i].peer_bda, GATT_CREATE_CONN_ID(i, n),
                 TRUE, GATT_CONN_OK, s.tcb[i].transport>>)
  ELSE s

ConnCbackApp(s, n, i, apps, is_valid_handle) ==
  IF ~cl_rcb[n].in_use THEN s
  ELSE AppConnCback(
         AppDirectConnect(AppHoldsLink(s, n, i, apps, is_valid_handle),
                          n, i, is_valid_handle),
         n, i)

RECURSIVE ConnCbackLoop(_, _, _, _, _)
ConnCbackLoop(s, n, i, apps, is_valid_handle) ==
  IF n > Cardinality(GattIfs) THEN s
  ELSE ConnCbackLoop(ConnCbackApp(s, n, i, apps, is_valid_handle),
                     n + 1, i, apps, is_valid_handle)

\* connection_manager::on_connection_complete, when the unified connection
\* manager is not in use.
OnConnectionComplete(s, i) ==
  IF ~flags.use_unified_connection_manager
  THEN [s EXCEPT !.cm[s.tcb[i].peer_bda] = {}]
  ELSE s

\* The idle timeout of a fixed channel follows the holder set.
IdleTimeoutByHolders(s, i) ==
  IF s.tcb[i].att_lcid = L2CAP_ATT_CID
  THEN IF s.tcb[i].app_hold_link # {}
       THEN GATT_SetIdleTimeout(s, s.tcb[i].peer_bda,
                                GATT_LINK_NO_IDLE_TIMEOUT, s.tcb[i].transport)
       ELSE GATT_SetIdleTimeout(s, s.tcb[i].peer_bda,
                                GATT_LINK_IDLE_TIMEOUT_WHEN_NO_APP,
                                s.tcb[i].transport)
  ELSE s

gatt_send_conn_cback(s, i, is_valid_handle) ==
  IdleTimeoutByHolders(
    OnConnectionComplete(
      ConnCbackLoop(s, 1, i, ConnectingApps(s, i), is_valid_handle), i), i)

\* if (check_srv_chg) gatt_chk_srv_chg(p_srv_chg_clt)
CheckSrvChg(s, check_srv_chg, bd_addr) ==
  IF check_srv_chg THEN gatt_chk_srv_chg(s, bd_addr) ELSE s

\* gatt_le_connect_cback opening the session of the peer from any state.
gatt_le_connect_cback_any_state(s, bd_addr, connected, reason, transport, is_valid_handle) ==
  LET i == gatt_find_tcb_by_addr(s, bd_addr, transport)
      check_srv_chg == gatt_is_bda_in_the_srv_chg_clt_list(s, bd_addr)
      s0 == AddIfBonded(s, bd_addr)
  IN IF transport = BT_TRANSPORT_BR_EDR THEN s
     ELSE IF ~connected
     THEN gatt_cleanup_upon_disc(s0, bd_addr, reason, transport)
     ELSE IF i # NoTcb THEN
       CheckSrvChg(
         IF gatt_get_ch_state(s0, i) # GATT_CH_CLOSE
         THEN gatt_send_conn_cback(
                [gatt_set_ch_state(s0, i, GATT_CH_OPEN)
                   EXCEPT !.tcb[i].payload_size = GATT_DEF_BLE_MTU_SIZE],
                i, is_valid_handle)
         ELSE s0,
         check_srv_chg, bd_addr)
     ELSE
       LET s1 == gatt_allocate_tcb_by_bdaddr(s0, bd_addr, BT_TRANSPORT_LE)
           j == gatt_find_tcb_by_addr(s1, bd_addr, BT_TRANSPORT_LE)
       IN IF j = NoTcb
          THEN IF flags.gatt_drop_acl_on_out_of_resources_fix
               THEN Emit(s1, <<"btm_remove_acl", bd_addr>>)
               ELSE s1
          ELSE CheckSrvChg(
                 gatt_send_conn_cback(
                   [gatt_set_ch_state(s1, j, GATT_CH_OPEN)
                      EXCEPT !.tcb[j].att_lcid = L2CAP_ATT_CID,
                             !.tcb[j].payload_size = GATT_DEF_BLE_MTU_SIZE],
                   j, is_valid_handle),
                 check_srv_chg, bd_addr)

gatt_le_connect_cback(s, bd_addr, connected, reason, transport, is_valid_handle) ==
  LET i == gatt_find_tcb_by_addr(s, bd_addr, transport)
      check_srv_chg == gatt_is_bda_in_the_srv_chg_clt_list(s, bd_addr)
      s0 == AddIfBonded(s, bd_addr)
  IN IF transport = BT_TRANSPORT_BR_EDR THEN s
     ELSE IF ~connected
     THEN gatt_cleanup_upon_disc(s0, bd_addr, reason, transport)
     ELSE IF i # NoTcb THEN
       CheckSrvChg(
         IF gatt_get_ch_state(s0, i) = GATT_CH_CONN
         THEN gatt_send_conn_cback(
                [gatt_set_ch_state(s0, i, GATT_CH_OPEN)
                   EXCEPT !.tcb[i].payload_size = GATT_DEF_BLE_MTU_SIZE],
                i, is_valid_handle)
         ELSE s0,
         check_srv_chg, bd_addr)
     ELSE
       LET s1 == gatt_allocate_tcb_by_bdaddr(s0, bd_addr, BT_TRANSPORT_LE)
           j == gatt_find_tcb_by_addr(s1, bd_addr, BT_TRANSPORT_LE)
       IN IF j = NoTcb
          THEN IF flags.gatt_drop_acl_on_out_of_resources_fix
               THEN Emit(s1, <<"btm_remove_acl", bd_addr>>)
               ELSE s1
          ELSE CheckSrvChg(
                 gatt_send_conn_cback(
                   [gatt_set_ch_state(s1, j, GATT_CH_OPEN)
                      EXCEPT !.tcb[j].att_lcid = L2CAP_ATT_CID,
                             !.tcb[j].payload_size = GATT_DEF_BLE_MTU_SIZE],
                   j, is_valid_handle),
                 check_srv_chg, bd_addr)

\* connection_manager::on_connection_timed_out with the reason of the
\* disabled flag whatever the flag.
on_connection_timed_out_flag_ignored(s, app_id, address) ==
  gatt_le_connect_cback(s, address, FALSE, 255, BT_TRANSPORT_LE, TRUE)

\* connection_manager::on_connection_timed_out: 8 is 0x08 and 255 is 0xff.
on_connection_timed_out(s, app_id, address) ==
  IF flags.enumerate_gatt_errors
  THEN gatt_le_connect_cback(s, address, FALSE, 8, BT_TRANSPORT_LE, TRUE)
  ELSE gatt_le_connect_cback(s, address, FALSE, 255, BT_TRANSPORT_LE, TRUE)

\* gatt_l2cif_connect_ind_cback without the transition to configuration.
gatt_l2cif_connect_ind_cback_no_cfg(s, bd_addr, lcid) ==
  IF gatt_find_tcb_by_addr(s, bd_addr, BT_TRANSPORT_BR_EDR) # NoTcb
     \/ AllocSlot(s, bd_addr, BT_TRANSPORT_BR_EDR) = NoTcb
  THEN Emit(s, <<"L2CA_DisconnectReq", lcid>>)
  ELSE [gatt_allocate_tcb_by_bdaddr(s, bd_addr, BT_TRANSPORT_BR_EDR)
          EXCEPT !.tcb[AllocSlot(s, bd_addr, BT_TRANSPORT_BR_EDR)].att_lcid =
                   lcid]

\* gatt_l2cif_connect_ind_cback giving the new channel to the session the
\* peer has already.
gatt_l2cif_connect_ind_cback_takes_over(s, bd_addr, lcid) ==
  IF gatt_find_tcb_by_addr(s, bd_addr, BT_TRANSPORT_BR_EDR) # NoTcb
  THEN gatt_set_ch_state(
         [s EXCEPT !.tcb[gatt_find_tcb_by_addr(s, bd_addr,
                                               BT_TRANSPORT_BR_EDR)].att_lcid =
                     lcid],
         gatt_find_tcb_by_addr(s, bd_addr, BT_TRANSPORT_BR_EDR), GATT_CH_CFG)
  ELSE IF AllocSlot(s, bd_addr, BT_TRANSPORT_BR_EDR) = NoTcb
  THEN Emit(s, <<"L2CA_DisconnectReq", lcid>>)
  ELSE gatt_set_ch_state(
         [gatt_allocate_tcb_by_bdaddr(s, bd_addr, BT_TRANSPORT_BR_EDR)
            EXCEPT !.tcb[AllocSlot(s, bd_addr, BT_TRANSPORT_BR_EDR)].att_lcid =
                     lcid],
         AllocSlot(s, bd_addr, BT_TRANSPORT_BR_EDR), GATT_CH_CFG)

gatt_l2cif_connect_ind_cback(s, bd_addr, lcid) ==
  LET i == gatt_find_tcb_by_addr(s, bd_addr, BT_TRANSPORT_BR_EDR)
      s1 == IF i = NoTcb
            THEN gatt_allocate_tcb_by_bdaddr(s, bd_addr, BT_TRANSPORT_BR_EDR)
            ELSE s
      j == gatt_find_tcb_by_addr(s1, bd_addr, BT_TRANSPORT_BR_EDR)
  IN IF i # NoTcb \/ j = NoTcb
     THEN Emit(s1, <<"L2CA_DisconnectReq", lcid>>)
     ELSE gatt_set_ch_state([s1 EXCEPT !.tcb[j].att_lcid = lcid], j,
                            GATT_CH_CFG)

\* gatt_on_l2cap_error leaving a connecting session in the table.
gatt_on_l2cap_error_keeps_session(s, lcid, result) ==
  IF gatt_find_tcb_by_cid(s, lcid) = NoTcb THEN s
  ELSE IF gatt_get_ch_state(s, gatt_find_tcb_by_cid(s, lcid)) = GATT_CH_CONN
  THEN gatt_set_ch_state(s, gatt_find_tcb_by_cid(s, lcid), GATT_CH_CLOSE)
  ELSE gatt_l2cif_disconnect(s, lcid)

gatt_on_l2cap_error(s, lcid, result) ==
  LET i == gatt_find_tcb_by_cid(s, lcid)
  IN IF i = NoTcb THEN s
     ELSE IF gatt_get_ch_state(s, i) = GATT_CH_CONN
     THEN gatt_cleanup_upon_disc(s, s.tcb[i].peer_bda, GATT_CONN_L2C_FAILURE,
                                 BT_TRANSPORT_BR_EDR)
     ELSE gatt_l2cif_disconnect(s, lcid)

\* gatt_l2cif_connect_cfm_cback opening the channel without configuration.
gatt_l2cif_connect_cfm_cback_skips_cfg(s, lcid, result_ok) ==
  IF gatt_find_tcb_by_cid(s, lcid) = NoTcb THEN s
  ELSE IF gatt_get_ch_state(s, gatt_find_tcb_by_cid(s, lcid)) = GATT_CH_CONN
          /\ result_ok
  THEN gatt_set_ch_state(s, gatt_find_tcb_by_cid(s, lcid), GATT_CH_OPEN)
  ELSE gatt_on_l2cap_error(s, lcid, result_ok)

\* result_ok: result == L2CAP_CONN_OK.
gatt_l2cif_connect_cfm_cback(s, lcid, result_ok) ==
  LET i == gatt_find_tcb_by_cid(s, lcid)
  IN IF i = NoTcb THEN s
     ELSE IF gatt_get_ch_state(s, i) = GATT_CH_CONN /\ result_ok
     THEN gatt_set_ch_state(s, i, GATT_CH_CFG)
     ELSE gatt_on_l2cap_error(s, lcid, result_ok)

\* gatt_l2cif_config_ind_cback taking the MTU of the peer whenever one is
\* present.
gatt_l2cif_config_ind_cback_peer_mtu(s, lcid, mtu) ==
  IF gatt_find_tcb_by_cid(s, lcid) = NoTcb THEN s
  ELSE [s EXCEPT !.tcb[gatt_find_tcb_by_cid(s, lcid)].payload_size =
                   IF mtu # 0 THEN mtu ELSE L2CAP_DEFAULT_MTU]

\* mtu = 0 stands for p_cfg->mtu_present == false.
gatt_l2cif_config_ind_cback(s, lcid, mtu) ==
  LET i == gatt_find_tcb_by_cid(s, lcid)
  IN IF i = NoTcb THEN s
     ELSE IF mtu # 0 /\ mtu < L2CAP_DEFAULT_MTU
     THEN [s EXCEPT !.tcb[i].payload_size = mtu]
     ELSE [s EXCEPT !.tcb[i].payload_size = L2CAP_DEFAULT_MTU]

\* The service changed step of gatt_l2cif_config_cfm_cback for the session
\* it opened.
OpenedSrvChg(s, i) ==
  IF gatt_is_bda_in_the_srv_chg_clt_list(s, s.tcb[i].peer_bda)
  THEN gatt_chk_srv_chg(s, s.tcb[i].peer_bda)
  ELSE AddIfBonded(s, s.tcb[i].peer_bda)

\* gatt_l2cif_config_cfm_cback that takes the MTU and leaves the channel in
\* configuration.
gatt_l2cif_config_cfm_cback_never_opens(s, lcid, mtu, is_valid_handle) ==
  gatt_l2cif_config_ind_cback(s, lcid, mtu)

\* gatt_l2cif_config_cfm_cback opening the channel from any state.
gatt_l2cif_config_cfm_cback_any_state(s, lcid, mtu, is_valid_handle) ==
  IF gatt_find_tcb_by_cid(s, lcid) = NoTcb THEN s
  ELSE gatt_send_conn_cback(
         gatt_set_ch_state(gatt_l2cif_config_ind_cback(s, lcid, mtu),
                           gatt_find_tcb_by_cid(s, lcid), GATT_CH_OPEN),
         gatt_find_tcb_by_cid(s, lcid), is_valid_handle)

gatt_l2cif_config_cfm_cback(s, lcid, mtu, is_valid_handle) ==
  LET s1 == gatt_l2cif_config_ind_cback(s, lcid, mtu)
      i == gatt_find_tcb_by_cid(s1, lcid)
  IN IF i = NoTcb THEN s1
     ELSE IF gatt_get_ch_state(s1, i) # GATT_CH_CFG THEN s1
     ELSE gatt_send_conn_cback(
            OpenedSrvChg(gatt_set_ch_state(s1, i, GATT_CH_OPEN), i), i,
            is_valid_handle)

\* gatt_l2cif_disconnect_ind_cback closing the channel without freeing it.
gatt_l2cif_disconnect_ind_cback_keeps_block(s, lcid) ==
  gatt_set_ch_state(s, gatt_find_tcb_by_cid(s, lcid), GATT_CH_CLOSE)

gatt_l2cif_disconnect_ind_cback(s, lcid) ==
  LET i == gatt_find_tcb_by_cid(s, lcid)
  IN IF i = NoTcb THEN s
     ELSE gatt_cleanup_upon_disc(AddIfBonded(s, s.tcb[i].peer_bda),
                                 s.tcb[i].peer_bda,
                                 GATT_CONN_TERMINATE_PEER_USER,
                                 BT_TRANSPORT_BR_EDR)

gatt_consolidate(s, identity_addr, rpa, is_valid_handle) ==
  LET i == gatt_find_tcb_by_addr(s, rpa, BT_TRANSPORT_LE)
  IN IF i = NoTcb THEN s
     ELSE gatt_send_conn_cback([s EXCEPT !.tcb[i].peer_bda = identity_addr],
                               i, is_valid_handle)

\* gatt_set_srv_chg: every client of the list is owed an indication; the
\* database changed, so the count of indications starts again.
gatt_set_srv_chg(s) ==
  [s EXCEPT !.srv.clt = [a \in Addrs |->
                           IF s.srv.clt[a].listed
                           THEN [listed |-> TRUE, srv_changed |-> TRUE]
                           ELSE s.srv.clt[a]],
            !.srv.ind = [a \in Addrs |-> 0]]

\* The loop of gatt_proc_srv_chg over the connected sessions, from slot i
\* on.  pending: the sessions gatt_is_srv_chg_ind_pending answers true for,
\* those with a service changed indication in the queue.
RECURSIVE SrvChgConnected(_, _, _)
SrvChgConnected(s, i, pending) ==
  IF i \notin Slots THEN s
  ELSE IF s.tcb[i].in_use /\ s.tcb[i].ch_state = GATT_CH_OPEN
          /\ i \notin pending
          /\ ~interop_match_name(s, s.tcb[i].peer_bda)
  THEN SrvChgConnected(gatt_send_srv_chg_ind(s, s.tcb[i].peer_bda), i + 1,
                       pending)
  ELSE SrvChgConnected(s, i + 1, pending)

gatt_proc_srv_chg(s, pending) ==
  IF ~s.srv.handle_of_h_r THEN s
  ELSE SrvChgConnected(gatt_set_srv_chg(s), 0, pending)

\* The congestion callbacks of gatt_channel_congestion, application by
\* application.
RECURSIVE CongestionCbacks(_, _, _, _)
CongestionCbacks(s, n, i, congested) ==
  IF n > Cardinality(GattIfs) THEN s
  ELSE CongestionCbacks(
         IF cl_rcb[n].in_use /\ cl_rcb[n].p_congestion_cb
         THEN Emit(s, <<"congestion_cb", n, GATT_CREATE_CONN_ID(i, n),
                        congested>>)
         ELSE s,
         n + 1, i, congested)

\* gatt_channel_congestion telling the applications before it resumes the
\* queued commands.
gatt_channel_congestion_cb_first(s, i, congested) ==
  IF i # NoTcb /\ ~congested
  THEN Emit(CongestionCbacks(s, 1, i, congested),
            <<"gatt_cl_send_next_cmd_inq", i>>)
  ELSE CongestionCbacks(s, 1, i, congested)

gatt_channel_congestion(s, i, congested) ==
  CongestionCbacks(
    IF i # NoTcb /\ ~congested
    THEN Emit(s, <<"gatt_cl_send_next_cmd_inq", i>>)
    ELSE s,
    1, i, congested)

gatt_le_cong_cback(s, remote_bda, congested) ==
  LET i == gatt_find_tcb_by_addr(s, remote_bda, BT_TRANSPORT_LE)
  IN IF i = NoTcb THEN s ELSE gatt_channel_congestion(s, i, congested)

gatt_l2cif_congest_cback(s, lcid, congested) ==
  LET i == gatt_find_tcb_by_cid(s, lcid)
  IN IF i = NoTcb THEN s ELSE gatt_channel_congestion(s, i, congested)

\* The value of a tGATT_CH_STATE enumerator: GATT_CH_OPEN is the largest.
ChStateValue(ch_state) ==
  CASE ch_state = GATT_CH_CLOSE -> 0
    [] ch_state = GATT_CH_CLOSING -> 1
    [] ch_state = GATT_CH_CONN -> 2
    [] ch_state = GATT_CH_CFG -> 3
    [] ch_state = GATT_CH_OPEN -> 4

\* gatt_data_process: the message goes to the attribute protocol handlers of
\* the server or of the client.
gatt_data_process(s, i, cid) == Emit(s, <<"gatt_data_process", i, cid>>)

\* gatt_le_data_ind handing the data of a session in any state on.
gatt_le_data_ind_any_state(s, bd_addr, drop) ==
  LET i == gatt_find_tcb_by_addr(s, bd_addr, BT_TRANSPORT_LE)
  IN Emit(IF i = NoTcb \/ drop THEN s
          ELSE gatt_data_process(s, i, L2CAP_ATT_CID),
          <<"osi_free">>)

\* drop: the arbiter's decision on the packet is InterceptAction::DROP.
gatt_le_data_ind(s, bd_addr, drop) ==
  LET i == gatt_find_tcb_by_addr(s, bd_addr, BT_TRANSPORT_LE)
  IN Emit(IF i = NoTcb THEN s
          ELSE IF drop THEN s
          ELSE IF ChStateValue(gatt_get_ch_state(s, i))
                    < ChStateValue(GATT_CH_OPEN)
          THEN s
          ELSE gatt_data_process(s, i, L2CAP_ATT_CID),
          <<"osi_free">>)

gatt_l2cif_data_ind_cback(s, lcid) ==
  LET i == gatt_find_tcb_by_cid(s, lcid)
  IN Emit(IF i # NoTcb /\ gatt_get_ch_state(s, i) = GATT_CH_OPEN
          THEN gatt_data_process(s, i, lcid)
          ELSE s,
          <<"osi_free">>)

(***************************************************************************)
(* avct_l2c_br.cc: the L2CAP callbacks of the AVCTP browsing channel.  A   *)
(* handler is an operator from a control block b (lcb, bcb and the calls   *)
(* ev made so far) to the control block after the call.                    *)
(***************************************************************************)

\* Number of links of avct_cb (AVCT_NUM_LINKS), bounded.
MaxAvctLinks == 2

AvctLinks == 1 .. MaxAvctLinks

\* A null p_lcb or p_bcb.
NoLink == 0

\* tAVCT_BCB::ch_state
AVCT_CH_IDLE == "AVCT_CH_IDLE"
AVCT_CH_CONN == "AVCT_CH_CONN"
AVCT_CH_CFG == "AVCT_CH_CFG"
AVCT_CH_OPEN == "AVCT_CH_OPEN"

\* The channel ids L2CAP hands out for the browsing channel.
AvctCids == {64, 65, 66}

\* The MTU a peer offers in a configuration message (0: none present).
AvctMtus == {0, 5000}

\* max_mtu of avct_l2c_br_config_ind_cback:
\* BT_DEFAULT_BUFFER_SIZE - L2CAP_MIN_OFFSET - BT_HDR_SIZE.
max_mtu == 4091

\* The peer of each link.
AvctPeer(l) == IF l = 1 THEN IdentityAddr ELSE Rpa

\* A link with no control channel, and a browsing channel not allocated.
EmptyLcb == [allocated |-> 0, peer_addr |-> EmptyAddr, passive |-> FALSE]
EmptyBcb ==
  [allocated |-> 0, peer_addr |-> EmptyAddr, ch_state |-> AVCT_CH_IDLE,
   ch_lcid |-> 0, conflict_lcid |-> 0, peer_mtu |-> 0, ch_result |-> 0]

AvctNoLink ==
  /\ avct_lcb = [l \in AvctLinks |-> EmptyLcb]
  /\ avct_bcb = [l \in AvctLinks |-> EmptyBcb]

AvctCur == [lcb |-> avct_lcb, bcb |-> avct_bcb, ev |-> <<>>]

\* The link whose control channel is to bd_addr, or none.
avct_lcb_by_bd(b, bd_addr) ==
  LET hit == {l \in AvctLinks : /\ b.lcb[l].allocated # 0
                                /\ b.lcb[l].peer_addr = bd_addr}
  IN IF hit = {} THEN NoLink ELSE Min(hit)

\* The browsing channel that has the channel id, as its channel or as its
\* conflicting channel, or none.
avct_bcb_by_lcid(b, lcid) ==
  LET hit == {l \in AvctLinks : /\ b.bcb[l].allocated # 0
                                /\ \/ b.bcb[l].ch_lcid = lcid
                                   \/ b.bcb[l].conflict_lcid = lcid}
  IN IF hit = {} THEN NoLink ELSE Min(hit)

\* avct_bcb_event: the event goes to the state machine of the browsing
\* channel; AVCT_LCB_LL_CLOSE_EVT frees the channel.
avct_bcb_event(b, l, event) ==
  IF event = "AVCT_LCB_LL_CLOSE_EVT"
  THEN [Emit(b, <<"avct_bcb_event", l, event>>) EXCEPT !.bcb[l] = EmptyBcb]
  ELSE Emit(b, <<"avct_bcb_event", l, event>>)

\* The browsing channel is opened from this side: allocated for the link,
\* in AVCT_CH_CONN with the channel id L2CA_ConnectReq returns (0: failed).
avct_bcb_chnl_open(b, l, lcid) ==
  IF b.lcb[l].allocated = 0 \/ b.bcb[l].allocated # 0 THEN b
  ELSE IF lcid = 0
  THEN avct_bcb_event(Emit(b, <<"L2CA_ConnectReq", l>>), l,
                      "AVCT_LCB_LL_CLOSE_EVT")
  ELSE [Emit(b, <<"L2CA_ConnectReq", l>>)
          EXCEPT !.bcb[l] = [EmptyBcb EXCEPT
                               !.allocated = b.lcb[l].allocated,
                               !.peer_addr = b.lcb[l].peer_addr,
                               !.ch_state = AVCT_CH_CONN,
                               !.ch_lcid = lcid]]

\* Whether a control channel of the link was created as AVCT_PASSIVE.
avct_l2c_br_is_passive(b, l) == b.lcb[l].passive

\* The indication accepted only for a link with no browsing channel.
ConnectIndAccepted_new_only(b, l) == l # NoLink /\ b.bcb[l].allocated = 0

\* The indication accepted whatever the browsing channel of the link is.
ConnectIndAccepted_always(b, l) == l # NoLink

\* The result avct_l2c_br_connect_ind_cback gives an indication for link l.
ConnectIndAccepted(b, l) ==
  /\ l # NoLink
  /\ \/ b.bcb[l].allocated = 0
     \/ ~(~avct_l2c_br_is_passive(b, l)
           \/ b.bcb[l].ch_state = AVCT_CH_OPEN)

\* avct_l2c_br_connect_ind_cback forgetting the channel it had.
avct_l2c_br_connect_ind_cback_no_conflict(b, bd_addr, lcid) ==
  IF ConnectIndAccepted(b, avct_lcb_by_bd(b, bd_addr))
  THEN [b EXCEPT
          !.bcb[avct_lcb_by_bd(b, bd_addr)] =
            [@ EXCEPT !.peer_addr = bd_addr,
                      !.allocated =
                        b.lcb[avct_lcb_by_bd(b, bd_addr)].allocated,
                      !.ch_lcid = lcid,
                      !.ch_state = AVCT_CH_CFG]]
  ELSE Emit(b, <<"L2CA_DisconnectReq", lcid>>)

avct_l2c_br_connect_ind_cback(b, bd_addr, lcid) ==
  LET l == avct_lcb_by_bd(b, bd_addr)
  IN IF l = NoLink THEN Emit(b, <<"L2CA_DisconnectReq", lcid>>)
     ELSE IF ~ConnectIndAccepted(b, l)
     THEN Emit([b EXCEPT !.bcb[l].peer_addr = bd_addr],
               <<"L2CA_DisconnectReq", lcid>>)
     ELSE [b EXCEPT
             !.bcb[l] =
               [@ EXCEPT !.peer_addr = bd_addr,
                         !.allocated = IF @ = 0 THEN b.lcb[l].allocated
                                       ELSE @,
                         !.conflict_lcid = IF b.bcb[l].allocated = 0 THEN @
                                           ELSE b.bcb[l].ch_lcid,
                         !.ch_lcid = lcid,
                         !.ch_state = AVCT_CH_CFG]]

avct_l2c_br_disconnect(b, lcid, result) ==
  LET b1 == Emit(b, <<"L2CA_DisconnectReq", lcid>>)
      l == avct_bcb_by_lcid(b1, lcid)
  IN IF l = NoLink THEN b1
     ELSE avct_bcb_event([b1 EXCEPT !.bcb[l].ch_result = 0], l,
                         "AVCT_LCB_LL_CLOSE_EVT")

avct_br_on_l2cap_error(b, lcid, result) ==
  LET l == avct_bcb_by_lcid(b, lcid)
  IN IF l = NoLink THEN b
     ELSE IF b.bcb[l].ch_state = AVCT_CH_CONN
             /\ b.bcb[l].conflict_lcid = lcid
     THEN [b EXCEPT !.bcb[l].conflict_lcid = 0]
     ELSE avct_l2c_br_disconnect([b EXCEPT !.bcb[l].ch_result = result],
                                 lcid, 0)

\* result_ok: result == L2CAP_CONN_OK.
avct_l2c_br_connect_cfm_cback(b, lcid, result_ok) ==
  LET l == avct_bcb_by_lcid(b, lcid)
  IN IF l = NoLink THEN b
     ELSE IF b.bcb[l].ch_state = AVCT_CH_CONN
     THEN IF result_ok THEN [b EXCEPT !.bcb[l].ch_state = AVCT_CH_CFG]
          ELSE b
     ELSE IF b.bcb[l].conflict_lcid = lcid
     THEN [(IF result_ok THEN Emit(b, <<"L2CA_DisconnectReq", lcid>>) ELSE b)
             EXCEPT !.bcb[l].conflict_lcid = 0]
     ELSE b

\* mtu = 0 stands for p_cfg->mtu_present == false.
avct_l2c_br_config_ind_cback(b, lcid, mtu) ==
  LET l == avct_bcb_by_lcid(b, lcid)
      peer_mtu == IF mtu # 0 THEN mtu ELSE L2CAP_DEFAULT_MTU
  IN IF l = NoLink THEN b
     ELSE [b EXCEPT !.bcb[l].peer_mtu = IF peer_mtu > max_mtu
                                        THEN max_mtu ELSE peer_mtu]

avct_l2c_br_config_cfm_cback(b, lcid, mtu) ==
  LET b1 == avct_l2c_br_config_ind_cback(b, lcid, mtu)
      l == avct_bcb_by_lcid(b1, lcid)
  IN IF l = NoLink THEN b1
     ELSE IF b1.bcb[l].ch_state # AVCT_CH_CFG THEN b1
     ELSE avct_bcb_event([b1 EXCEPT !.bcb[l].ch_state = AVCT_CH_OPEN], l,
                         "AVCT_LCB_LL_OPEN_EVT")

avct_l2c_br_disconnect_ind_cback(b, lcid) ==
  LET l == avct_bcb_by_lcid(b, lcid)
  IN IF l = NoLink THEN b
     ELSE avct_bcb_event(b, l, "AVCT_LCB_LL_CLOSE_EVT")

avct_l2c_br_congestion_ind_cback(b, lcid, is_congested) ==
  LET l == avct_bcb_by_lcid(b, lcid)
  IN IF l = NoLink THEN b
     ELSE avct_bcb_event(b, l, "AVCT_LCB_LL_CONG_EVT")

avct_l2c_br_data_ind_cback(b, lcid) ==
  LET l == avct_bcb_by_lcid(b, lcid)
  IN IF l = NoLink THEN Emit(b, <<"osi_free">>)
     ELSE avct_bcb_event(b, l, "AVCT_LCB_LL_MSG_EVT")

(***************************************************************************)
(* a2dp_encoding_aidl.cc: the control commands of the A2DP audio           *)
(* transport.  t is the transport a handler works on: t.cmd is             *)
(* a2dp_pending_cmd_, t.av the stream of btif_av, t.ev the calls made and  *)
(* t.ret the value returned.                                               *)
(***************************************************************************)

\* tA2DP_CTRL_CMD
A2DP_CTRL_CMD_NONE == "A2DP_CTRL_CMD_NONE"
A2DP_CTRL_CMD_START == "A2DP_CTRL_CMD_START"
A2DP_CTRL_CMD_SUSPEND == "A2DP_CTRL_CMD_SUSPEND"
A2DP_CTRL_CMD_STOP == "A2DP_CTRL_CMD_STOP"

\* BluetoothAudioStatus of an acknowledgement.
AudioStatuses == {"SUCCESS", "PENDING", "FAILURE"}

\* Before init(): no command is pending, no stream is open and no HAL
\* interface is active.
A2dpNoSession ==
  /\ a2dp_pending_cmd_ = A2DP_CTRL_CMD_NONE
  /\ av_stream = "closed"
  /\ active_hal_interface = "nullptr"

A2dpCur == [cmd |-> a2dp_pending_cmd_, av |-> av_stream,
            hal |-> active_hal_interface, ev |-> <<>>, ret |-> "void"]

is_hal_enabled(t) == t.hal # "nullptr"

btif_av_stream_started_ready(t) == t.av = "started"

btif_av_stream_ready(t) == t.av = "open"

\* StartRequest that tests only for a start in progress.
StartRequest_overwrites(t, call_idle, lea_iso_active, peer_is_src) ==
  IF t.cmd = A2DP_CTRL_CMD_START THEN [t EXCEPT !.ret = "PENDING"]
  ELSE IF btif_av_stream_ready(t)
  THEN [Emit(t, <<"btif_av_stream_start_with_latency">>)
          EXCEPT !.cmd = A2DP_CTRL_CMD_START, !.ret = "PENDING"]
  ELSE [t EXCEPT !.ret = "FAILURE"]

\* call_idle: bluetooth::headset::IsCallIdle(); lea_iso_active:
\* a2dp_check_lea_iso_channel is enabled and an ISO channel is active;
\* peer_is_src: btif_av_get_peer_sep is AVDT_TSEP_SRC.
StartRequest(t, call_idle, lea_iso_active, peer_is_src) ==
  IF t.cmd = A2DP_CTRL_CMD_START THEN [t EXCEPT !.ret = "PENDING"]
  ELSE IF t.cmd # A2DP_CTRL_CMD_NONE THEN [t EXCEPT !.ret = "FAILURE"]
  ELSE IF ~call_idle THEN [t EXCEPT !.ret = "FAILURE_BUSY"]
  ELSE IF lea_iso_active THEN [t EXCEPT !.ret = "FAILURE"]
  ELSE IF btif_av_stream_started_ready(t)
  THEN [t EXCEPT !.ret = "SUCCESS_FINISHED"]
  ELSE IF btif_av_stream_ready(t)
  THEN IF ~peer_is_src
       THEN [Emit(Emit(t, <<"invoke_switch_codec_cb">>),
                  <<"btif_av_stream_start_with_latency">>)
               EXCEPT !.cmd = A2DP_CTRL_CMD_START, !.ret = "PENDING"]
       ELSE [Emit(Emit(t, <<"invoke_switch_codec_cb">>),
                  <<"btif_av_stream_start_with_latency">>)
               EXCEPT !.cmd = A2DP_CTRL_CMD_NONE, !.ret = "SUCCESS_FINISHED"]
  ELSE [t EXCEPT !.ret = "FAILURE"]

SuspendRequest(t) ==
  IF t.cmd = A2DP_CTRL_CMD_SUSPEND THEN [t EXCEPT !.ret = "PENDING"]
  ELSE IF t.cmd # A2DP_CTRL_CMD_NONE THEN [t EXCEPT !.ret = "FAILURE"]
  ELSE IF btif_av_stream_started_ready(t)
  THEN [Emit(t, <<"btif_av_stream_suspend">>)
          EXCEPT !.cmd = A2DP_CTRL_CMD_SUSPEND, !.ret = "PENDING"]
  ELSE [Emit(t, <<"btif_av_clear_remote_suspend_flag">>)
          EXCEPT !.ret = "SUCCESS_FINISHED"]

\* peer_is_snk: btif_av_get_peer_sep is AVDT_TSEP_SNK.
StopRequest(t, peer_is_snk) ==
  IF peer_is_snk /\ ~btif_av_stream_started_ready(t)
  THEN Emit(t, <<"btif_av_clear_remote_suspend_flag">>)
  ELSE [Emit(t, <<"btif_av_stream_stop">>) EXCEPT !.cmd = A2DP_CTRL_CMD_STOP]

ResetPendingCmd(t) == [t EXCEPT !.cmd = A2DP_CTRL_CMD_NONE]

end_session(t) ==
  IF ~is_hal_enabled(t) THEN t
  ELSE ResetPendingCmd(Emit(t, <<"EndSession">>))

\* init(): the software interface exists exactly when an interface is
\* active; a new transport starts with no command pending.
init(t, aidl_available, valid, offload_enabled) ==
  IF is_hal_enabled(t) THEN [t EXCEPT !.ret = TRUE]
  ELSE IF ~aidl_available \/ ~valid THEN [t EXCEPT !.ret = FALSE]
  ELSE [t EXCEPT !.cmd = A2DP_CTRL_CMD_NONE,
                 !.hal = IF offload_enabled THEN "offloading" ELSE "software",
                 !.ret = TRUE]

cleanup(t) ==
  IF ~is_hal_enabled(t) THEN t
  ELSE [ResetPendingCmd(end_session(t)) EXCEPT !.hal = "nullptr"]

ack_stream_started(t, ack) ==
  IF ~is_hal_enabled(t) THEN t
  ELSE IF t.cmd = A2DP_CTRL_CMD_START
  THEN IF ack # "PENDING"
       THEN ResetPendingCmd(Emit(t, <<"StreamStarted", ack>>))
       ELSE Emit(t, <<"StreamStarted", ack>>)
  ELSE t

ack_stream_suspended(t, ack) ==
  IF ~is_hal_enabled(t) THEN t
  ELSE IF t.cmd = A2DP_CTRL_CMD_SUSPEND
  THEN IF ack # "PENDING"
       THEN ResetPendingCmd(Emit(t, <<"StreamSuspended", ack>>))
       ELSE Emit(t, <<"StreamSuspended", ack>>)
  ELSE IF t.cmd = A2DP_CTRL_CMD_STOP
  THEN IF ack # "PENDING" THEN ResetPendingCmd(t) ELSE t
  ELSE t

(***************************************************************************)
(* The state machine: one action per entry point.                          *)
(***************************************************************************)

\* The slots holding a session, and the channel ids they use.
Live == {i \in Slots : tcb[i].in_use}
UsedCids == {tcb[i].att_lcid : i \in Live}

\* The names of the calls a handler made.
Calls(r) == {r.ev[k][1] : k \in DOMAIN r.ev}

\* last: the handler that ran last and the calls it made.  A handler that left
\* the control block as it was is recorded as "no change", except a
\* gatt_update_app_use_link_flag that reached gatt_update_app_hold_link_status.
NoCall == [op |-> "init", calls |-> {}]

Record(r, op) ==
  IF r.tcb = tcb /\ r.idle = idle /\ r.cm = cm /\ r.dcr = dcr
     /\ (op = "gatt_update_app_use_link_flag" => r.ev = <<>>)
  THEN [op |-> "no change", calls |-> {}]
  ELSE [op |-> op, calls |-> Calls(r)]

\* The handler's result becomes the state.
Commit(result, op) ==
  \E r \in {result} :
  /\ tcb' = r.tcb
  /\ idle' = r.idle
  /\ cm' = r.cm
  /\ dcr' = r.dcr
  /\ last' = Record(r, op)
  /\ srv_chg' = r.srv
  /\ UNCHANGED <<cl_rcb, flags, prev, avct_lcb, avct_bcb, a2dp_pending_cmd_,
                 av_stream, active_hal_interface>>

Init ==
  /\ tcb = [i \in Slots |-> EmptyTcb]
  /\ idle = [a \in Addrs |-> default_idle_tout]
  /\ cm = [a \in Addrs |-> {}]
  /\ dcr = [c \in GattIfs |-> {}]
  /\ cl_rcb = [n \in GattIfs |->
                 IF n \in Callers
                 THEN [in_use |-> TRUE, p_conn_cb |-> TRUE,
                       p_congestion_cb |-> TRUE]
                 ELSE [in_use |-> FALSE, p_conn_cb |-> FALSE,
                       p_congestion_cb |-> FALSE]]
  /\ flags \in FlagSettings
  /\ last = NoCall
  /\ prev = [i \in Slots |-> NoSession]
  /\ AvctNoLink
  /\ A2dpNoSession
  /\ srv_chg = NoSrvChg

\* An application asks for a connection: gatt_act_connect.  l2c_lcid is the
\* channel L2CA_ConnectReq2 gives (0: none), le_ok the answer of
\* acl_create_le_connection_with_id.
DoActConnect(c, bda, transport, l2c_lcid, le_ok) ==
  Commit(gatt_act_connect(Cur, c, bda, transport, l2c_lcid, le_ok, TRUE),
         "gatt_act_connect")

ActConnect ==
  \E c \in Callers, k \in PeerKeys, l2c_lcid \in (EnvCids \ UsedCids) \cup {0},
     le_ok \in BOOLEAN :
    /\ k[2] = BT_TRANSPORT_LE => l2c_lcid = 0
    /\ k[2] # BT_TRANSPORT_LE => le_ok
    /\ DoActConnect(c, k[1], k[2], l2c_lcid, le_ok)

\* An application asks for a connection to a peer that has no session and the
\* request goes to the connection manager alone (a background connection, or
\* a direct one under gatt_reconnect_on_bt_on_fix, which also notes the peer
\* in direct_connect_request).
DoConnMgrConnect(c, a, direct) ==
  /\ gatt_find_tcb_by_addr(Cur, a, BT_TRANSPORT_LE) = NoTcb
  /\ direct => flags.gatt_reconnect_on_bt_on_fix
  /\ Commit(acl_create_le_connection_with_id(
              IF direct THEN [Cur EXCEPT !.dcr[c] = @ \cup {a}] ELSE Cur,
              c, a, TRUE),
            "connect_no_tcb")

ConnMgrConnect ==
  \E c \in Callers, direct \in BOOLEAN : DoConnMgrConnect(c, IdentityAddr, direct)

\* hold_link / release_link: gatt_update_app_use_link_flag on a session (or
\* on none).
DoUpdateAppUseLinkFlag(c, i, is_add, chk, v) ==
  Commit(gatt_update_app_use_link_flag(Cur, c, i, is_add, chk, v),
         "gatt_update_app_use_link_flag")

UpdateAppUseLinkFlag ==
  \E c \in Callers, i \in Live \cup {NoTcb}, is_add \in BOOLEAN,
     chk \in BOOLEAN, v \in BOOLEAN :
    /\ i = NoTcb => c = 1 /\ is_add /\ chk /\ v
    /\ i # NoTcb /\ ~v => chk /\ tcb[i].att_lcid = L2CAP_ATT_CID
    /\ DoUpdateAppUseLinkFlag(c, i, is_add, chk, v)

DoDisconnect(i) == Commit(gatt_disconnect(Cur, i), "gatt_disconnect")

Disconnect == \E i \in Live \cup {NoTcb} : DoDisconnect(i)

\* L2CAP reports the ATT fixed channel connected or disconnected.  When the
\* link is up the unified connection manager has completed its requests for
\* the peer.
UnifiedConnected(r, a, connected, t) ==
  IF flags.use_unified_connection_manager /\ connected /\ t = BT_TRANSPORT_LE
  THEN [r EXCEPT !.cm[a] = {}]
  ELSE r

DoLeConnectCback(a, connected, reason, t) ==
  Commit(UnifiedConnected(
           gatt_le_connect_cback(Cur, a, connected, reason, t, TRUE),
           a, connected, t),
         IF connected THEN "gatt_le_connect_cback(connected)"
         ELSE "gatt_le_connect_cback(disconnected)")

LeConnectCback ==
  \E a \in Addrs, connected \in BOOLEAN, t \in Transports,
     reason \in {GATT_CONN_TERMINATE_PEER_USER} :
    /\ t = BT_TRANSPORT_BR_EDR => a = IdentityAddr /\ connected
    /\ DoLeConnectCback(a, connected, reason, t)

DoL2cConnectInd(bda, lcid) ==
  Commit(gatt_l2cif_connect_ind_cback(Cur, bda, lcid),
         "gatt_l2cif_connect_ind_cback")

L2cConnectInd ==
  \E lcid \in EnvCids \ UsedCids : DoL2cConnectInd(IdentityAddr, lcid)

DoL2cConnectCfm(lcid, ok) ==
  Commit(gatt_l2cif_connect_cfm_cback(Cur, lcid, ok),
         "gatt_l2cif_connect_cfm_cback")

L2cConnectCfm == \E lcid \in EnvCids, ok \in BOOLEAN : DoL2cConnectCfm(lcid, ok)

DoL2cError(lcid) ==
  Commit(gatt_on_l2cap_error(Cur, lcid, FALSE),
         "gatt_on_l2cap_error")

L2cError == \E lcid \in EnvCids : DoL2cError(lcid)

DoL2cConfigCfm(lcid, mtu) ==
  Commit(gatt_l2cif_config_cfm_cback(Cur, lcid, mtu, TRUE),
         "gatt_l2cif_config_cfm_cback")

L2cConfigCfm == \E lcid \in EnvCids, mtu \in EnvMtus : DoL2cConfigCfm(lcid, mtu)

DoL2cDisconnectInd(lcid) ==
  Commit(gatt_l2cif_disconnect_ind_cback(Cur, lcid),
         "gatt_l2cif_disconnect_ind_cback")

L2cDisconnectInd == \E lcid \in EnvCids : DoL2cDisconnectInd(lcid)

\* The peer's resolvable private address is resolved to its identity address.
DoConsolidate(identity_addr, rpa) ==
  Commit(gatt_consolidate(Cur, identity_addr, rpa, TRUE),
         "gatt_consolidate")

Consolidate == DoConsolidate(IdentityAddr, Rpa)

Next ==
  \/ ActConnect
  \/ ConnMgrConnect
  \/ UpdateAppUseLinkFlag
  \/ Disconnect
  \/ LeConnectCback
  \/ L2cConnectInd
  \/ L2cConnectCfm
  \/ L2cError
  \/ L2cConfigCfm
  \/ L2cDisconnectInd
  \/ Consolidate

Spec == Init /\ [][Next]_vars

(***************************************************************************)
(* The link events.  A second state machine of the same handlers: one      *)
(* application calls in, congestion and data indications arrive, the       *)
(* table runs out of slots, and every handler that ran is recorded in last *)
(* with its argument and its calls, whether or not it changed the control  *)
(* block.                                                                  *)
(***************************************************************************)

LinkCallers == {1}

\* The sessions a handler freed leave their peer and channel id in prev.
Freed(r) ==
  [i \in Slots |-> IF tcb[i].in_use /\ ~r.tcb[i].in_use
                   THEN <<tcb[i].peer_bda, tcb[i].att_lcid>>
                   ELSE prev[i]]

\* The handler's result becomes the state and the handler is recorded;
\* history tells whether prev follows the sessions freed.
Observe(result, op, arg, history) ==
  \E r \in {result} :
  /\ tcb' = r.tcb
  /\ idle' = r.idle
  /\ cm' = r.cm
  /\ dcr' = r.dcr
  /\ last' = [op |-> op, arg |-> arg, calls |-> Calls(r)]
  /\ prev' = IF history THEN Freed(r) ELSE prev
  /\ srv_chg' = r.srv
  /\ UNCHANGED <<cl_rcb, flags, avct_lcb, avct_bcb, a2dp_pending_cmd_,
                 av_stream, active_hal_interface>>

LinkInit ==
  /\ tcb = [i \in Slots |-> EmptyTcb]
  /\ idle = [a \in Addrs |-> default_idle_tout]
  /\ cm = [a \in Addrs |-> {}]
  /\ dcr = [c \in GattIfs |-> {}]
  /\ cl_rcb = [n \in GattIfs |->
                 IF n \in Callers
                 THEN [in_use |-> TRUE, p_conn_cb |-> TRUE,
                       p_congestion_cb |-> TRUE]
                 ELSE [in_use |-> FALSE, p_conn_cb |-> FALSE,
                       p_congestion_cb |-> FALSE]]
  /\ flags \in DropAclFlagSettings
  /\ last = [op |-> "init", arg |-> 0, calls |-> {}]
  /\ prev = [i \in Slots |-> NoSession]
  /\ AvctNoLink
  /\ A2dpNoSession
  /\ srv_chg = NoSrvChg

LinkActConnect ==
  \E c \in LinkCallers, k \in PeerKeys,
     l2c_lcid \in (EnvCids \ UsedCids) \cup {0}, le_ok \in BOOLEAN :
    /\ k[2] = BT_TRANSPORT_LE => l2c_lcid = 0
    /\ k[2] # BT_TRANSPORT_LE => le_ok
    /\ Observe(gatt_act_connect(Cur, c, k[1], k[2], l2c_lcid, le_ok, TRUE),
               "gatt_act_connect", k, FALSE)

LinkUpdateAppUseLinkFlag ==
  \E c \in LinkCallers, i \in Live, is_add \in BOOLEAN, chk \in BOOLEAN :
    Observe(gatt_update_app_use_link_flag(Cur, c, i, is_add, chk, TRUE),
            "gatt_update_app_use_link_flag", i, FALSE)

LinkDisconnect ==
  \E i \in Live :
    Observe(gatt_disconnect(Cur, i), "gatt_disconnect", i, FALSE)

LinkLeConnectCback ==
  \E a \in Addrs, connected \in BOOLEAN :
    Observe(gatt_le_connect_cback(Cur, a, connected,
                                  GATT_CONN_TERMINATE_PEER_USER,
                                  BT_TRANSPORT_LE, TRUE),
            IF connected THEN "gatt_le_connect_cback(connected)"
            ELSE "gatt_le_connect_cback(disconnected)", a, FALSE)

LinkL2cConnectInd ==
  \E lcid \in EnvCids \ UsedCids :
    Observe(gatt_l2cif_connect_ind_cback(Cur, IdentityAddr, lcid),
            "gatt_l2cif_connect_ind_cback", lcid, FALSE)

LinkL2cConnectCfm ==
  \E lcid \in EnvCids, ok \in BOOLEAN :
    Observe(gatt_l2cif_connect_cfm_cback(Cur, lcid, ok),
            "gatt_l2cif_connect_cfm_cback", lcid, FALSE)

LinkL2cError ==
  \E lcid \in EnvCids :
    Observe(gatt_on_l2cap_error(Cur, lcid, FALSE), "gatt_on_l2cap_error",
            lcid, FALSE)

LinkL2cConfigCfm ==
  \E lcid \in EnvCids, mtu \in EnvMtus :
    Observe(gatt_l2cif_config_cfm_cback(Cur, lcid, mtu, TRUE),
            "gatt_l2cif_config_cfm_cback", lcid, FALSE)

LinkL2cDisconnectInd ==
  \E lcid \in EnvCids :
    Observe(gatt_l2cif_disconnect_ind_cback(Cur, lcid),
            "gatt_l2cif_disconnect_ind_cback", lcid, FALSE)

\* L2CAP reports the congestion of the fixed channel or of a dynamic one.
LinkLeCongCback ==
  \E a \in Addrs, congested \in BOOLEAN :
    Observe(gatt_le_cong_cback(Cur, a, congested), "gatt_le_cong_cback", a,
            FALSE)

LinkL2cCongestCback ==
  \E lcid \in EnvCids, congested \in BOOLEAN :
    Observe(gatt_l2cif_congest_cback(Cur, lcid, congested),
            "gatt_l2cif_congest_cback", lcid, FALSE)

\* L2CAP delivers data of the fixed channel or of a dynamic one.
LinkLeDataInd ==
  \E a \in Addrs, drop \in BOOLEAN :
    Observe(gatt_le_data_ind(Cur, a, drop), "gatt_le_data_ind", a, FALSE)

LinkL2cDataInd ==
  \E lcid \in EnvCids :
    Observe(gatt_l2cif_data_ind_cback(Cur, lcid),
            "gatt_l2cif_data_ind_cback", lcid, FALSE)

LinkNext ==
  \/ LinkActConnect
  \/ LinkUpdateAppUseLinkFlag
  \/ LinkDisconnect
  \/ LinkLeConnectCback
  \/ LinkL2cConnectInd
  \/ LinkL2cConnectCfm
  \/ LinkL2cError
  \/ LinkL2cConfigCfm
  \/ LinkL2cDisconnectInd
  \/ LinkLeCongCback
  \/ LinkL2cCongestCback
  \/ LinkLeDataInd
  \/ LinkL2cDataInd

SpecLink == LinkInit /\ [][LinkNext]_vars

(***************************************************************************)
(* The dynamic channels.  A third state machine, of the handlers of the    *)
(* ATT channel over BR/EDR alone: one application connects to two peers,   *)
(* L2CAP has two channel ids to hand out, and prev keeps the peer and the  *)
(* channel id of the session each slot held before.                        *)
(***************************************************************************)

DynCids == {64, 65}

\* The channel ids L2CAP may give a new channel.
DynFreeCids == DynCids \ UsedCids

DynActConnect ==
  \E c \in LinkCallers, a \in Addrs, l2c_lcid \in DynFreeCids \cup {0} :
    Observe(gatt_act_connect(Cur, c, a, BT_TRANSPORT_BR_EDR, l2c_lcid, TRUE,
                             TRUE),
            "gatt_act_connect", a, TRUE)

DynUpdateAppUseLinkFlag ==
  \E c \in LinkCallers, i \in Live, is_add \in BOOLEAN, chk \in BOOLEAN :
    Observe(gatt_update_app_use_link_flag(Cur, c, i, is_add, chk, TRUE),
            "gatt_update_app_use_link_flag", i, TRUE)

DynDisconnect ==
  \E i \in Live :
    Observe(gatt_disconnect(Cur, i), "gatt_disconnect", i, TRUE)

DynL2cConnectInd ==
  \E a \in Addrs, lcid \in DynFreeCids :
    Observe(gatt_l2cif_connect_ind_cback(Cur, a, lcid),
            "gatt_l2cif_connect_ind_cback", lcid, TRUE)

DynL2cConnectCfm ==
  \E lcid \in DynCids, ok \in BOOLEAN :
    Observe(gatt_l2cif_connect_cfm_cback(Cur, lcid, ok),
            IF ok THEN "gatt_l2cif_connect_cfm_cback(ok)"
            ELSE "gatt_l2cif_connect_cfm_cback(failed)", lcid, TRUE)

DynL2cError ==
  \E lcid \in DynCids :
    Observe(gatt_on_l2cap_error(Cur, lcid, FALSE), "gatt_on_l2cap_error",
            lcid, TRUE)

DynL2cConfigCfm ==
  \E lcid \in DynCids, mtu \in EnvMtus :
    Observe(gatt_l2cif_config_cfm_cback(Cur, lcid, mtu, TRUE),
            "gatt_l2cif_config_cfm_cback", lcid, TRUE)

DynL2cDisconnectInd ==
  \E lcid \in DynCids :
    Observe(gatt_l2cif_disconnect_ind_cback(Cur, lcid),
            "gatt_l2cif_disconnect_ind_cback", lcid, TRUE)

DynNext ==
  \/ DynActConnect
  \/ DynUpdateAppUseLinkFlag
  \/ DynDisconnect
  \/ DynL2cConnectInd
  \/ DynL2cConnectCfm
  \/ DynL2cError
  \/ DynL2cConfigCfm
  \/ DynL2cDisconnectInd

DynInit == LinkInit /\ ~flags.gatt_drop_acl_on_out_of_resources_fix

SpecDyn == DynInit /\ [][DynNext]_vars

\* The channel has a connect request L2CAP has not answered.
DynConnectOutstanding(lcid) ==
  \E i \in Live : tcb[i].att_lcid = lcid /\ tcb[i].ch_state = GATT_CH_CONN

\* The channel is in configuration.
DynConfigOutstanding(lcid) ==
  \E i \in Live : tcb[i].att_lcid = lcid /\ tcb[i].ch_state = GATT_CH_CFG

\* L2CAP answers the connect request of the channel: a connect confirm or an
\* error.
DynAnswerConnect(lcid) ==
  /\ DynConnectOutstanding(lcid)
  /\ \/ \E ok \in BOOLEAN :
          Observe(gatt_l2cif_connect_cfm_cback(Cur, lcid, ok),
                  IF ok THEN "gatt_l2cif_connect_cfm_cback(ok)"
                  ELSE "gatt_l2cif_connect_cfm_cback(failed)", lcid, TRUE)
     \/ Observe(gatt_on_l2cap_error(Cur, lcid, FALSE), "gatt_on_l2cap_error",
                lcid, TRUE)

\* L2CAP answers the configuration of the channel: a configuration confirm
\* or a disconnect indication.
DynAnswerConfig(lcid) ==
  /\ DynConfigOutstanding(lcid)
  /\ \/ \E mtu \in EnvMtus :
          Observe(gatt_l2cif_config_cfm_cback(Cur, lcid, mtu, TRUE),
                  "gatt_l2cif_config_cfm_cback", lcid, TRUE)
     \/ Observe(gatt_l2cif_disconnect_ind_cback(Cur, lcid),
                "gatt_l2cif_disconnect_ind_cback", lcid, TRUE)

\* The dynamic channels with an L2CAP that answers every connect request
\* and every configuration in the end: weak fairness of the two answers per
\* channel, WF_vars(DynAnswerConnect(lcid)) and
\* WF_vars(DynAnswerConfig(lcid)), written out with the guard of the action
\* in the place of ENABLED (an answer always changes the session it is for,
\* so the action is enabled exactly when its guard holds).
SpecDynLive ==
  /\ SpecDyn
  /\ \A lcid \in DynCids :
       /\ \/ []<>(~DynConnectOutstanding(lcid))
          \/ []<><<DynAnswerConnect(lcid)>>_vars
       /\ \/ []<>(~DynConfigOutstanding(lcid))
          \/ []<><<DynAnswerConfig(lcid)>>_vars

(***************************************************************************)
(* The browsing channel: the callbacks of avct_l2c_br.cc on links whose    *)
(* control channel exists, with no GATT session.                           *)
(***************************************************************************)

\* The channel ids of the browsing channels, current or conflicting.
AvctUsedCids ==
  {avct_bcb[l].ch_lcid : l \in AvctLinks}
    \cup {avct_bcb[l].conflict_lcid : l \in AvctLinks}

AvctFreeCids == AvctCids \ AvctUsedCids

AvctObserve(result, op, arg) ==
  \E r \in {result} :
    /\ avct_lcb' = r.lcb
    /\ avct_bcb' = r.bcb
    /\ last' = [op |-> op, arg |-> arg, calls |-> Calls(r)]
    /\ UNCHANGED <<tcb, idle, cm, dcr, cl_rcb, flags, prev, srv_chg,
                   a2dp_pending_cmd_, av_stream, active_hal_interface>>

AvctInit ==
  /\ tcb = [i \in Slots |-> EmptyTcb]
  /\ idle = [a \in Addrs |-> default_idle_tout]
  /\ cm = [a \in Addrs |-> {}]
  /\ dcr = [c \in GattIfs |-> {}]
  /\ cl_rcb = [n \in GattIfs |->
                 [in_use |-> FALSE, p_conn_cb |-> FALSE,
                  p_congestion_cb |-> FALSE]]
  /\ flags \in DropAclFlagSettings
  /\ ~flags.gatt_drop_acl_on_out_of_resources_fix
  /\ last = [op |-> "init", arg |-> 0, calls |-> {}]
  /\ prev = [i \in Slots |-> NoSession]
  /\ srv_chg = NoSrvChg
  /\ A2dpNoSession
  /\ avct_lcb \in [AvctLinks -> [allocated : {0}, peer_addr : {EmptyAddr},
                                 passive : BOOLEAN]]
  /\ avct_bcb = [l \in AvctLinks |-> EmptyBcb]

\* The control channel of a link comes up (avct_lcb_alloc) for a peer that
\* has none; its role was chosen by the application that created the
\* connection.
AvctLinkUp ==
  \E l \in AvctLinks :
    /\ avct_lcb[l].allocated = 0
    /\ avct_lcb_by_bd(AvctCur, AvctPeer(l)) = NoLink
    /\ AvctObserve([AvctCur EXCEPT !.lcb[l].allocated = l,
                                   !.lcb[l].peer_addr = AvctPeer(l)],
                   "avct_lcb_alloc", l)

AvctBcbChnlOpen ==
  \E l \in AvctLinks, lcid \in AvctFreeCids \cup {0} :
    /\ avct_lcb[l].allocated # 0
    /\ avct_bcb[l].allocated = 0
    /\ AvctObserve(avct_bcb_chnl_open(AvctCur, l, lcid),
                   "avct_bcb_chnl_open", lcid)

AvctConnectInd ==
  \E l \in AvctLinks, lcid \in AvctFreeCids :
    AvctObserve(avct_l2c_br_connect_ind_cback(AvctCur, AvctPeer(l), lcid),
                "avct_l2c_br_connect_ind_cback", lcid)

AvctError ==
  \E lcid \in AvctUsedCids \ {0} :
    AvctObserve(avct_br_on_l2cap_error(AvctCur, lcid, 1),
                "avct_br_on_l2cap_error", lcid)

AvctConnectCfmOk ==
  \E lcid \in AvctUsedCids \ {0} :
    AvctObserve(avct_l2c_br_connect_cfm_cback(AvctCur, lcid, TRUE),
                "avct_l2c_br_connect_cfm_cback(ok)", lcid)

AvctConnectCfmFailed ==
  \E lcid \in AvctUsedCids \ {0} :
    AvctObserve(avct_l2c_br_connect_cfm_cback(AvctCur, lcid, FALSE),
                "avct_l2c_br_connect_cfm_cback(failed)", lcid)

AvctConfigCfm ==
  \E lcid \in AvctUsedCids \ {0}, mtu \in AvctMtus :
    AvctObserve(avct_l2c_br_config_cfm_cback(AvctCur, lcid, mtu),
                "avct_l2c_br_config_cfm_cback", lcid)

AvctConfigInd ==
  \E lcid \in AvctUsedCids \ {0}, mtu \in AvctMtus :
    AvctObserve(avct_l2c_br_config_ind_cback(AvctCur, lcid, mtu),
                "avct_l2c_br_config_ind_cback", lcid)

AvctDisconnectInd ==
  \E lcid \in AvctUsedCids \ {0} :
    AvctObserve(avct_l2c_br_disconnect_ind_cback(AvctCur, lcid),
                "avct_l2c_br_disconnect_ind_cback", lcid)

AvctCongestionInd ==
  \E lcid \in AvctCids, is_congested \in BOOLEAN :
    AvctObserve(avct_l2c_br_congestion_ind_cback(AvctCur, lcid, is_congested),
                "avct_l2c_br_congestion_ind_cback", lcid)

AvctDataInd ==
  \E lcid \in AvctCids :
    AvctObserve(avct_l2c_br_data_ind_cback(AvctCur, lcid),
                "avct_l2c_br_data_ind_cback", lcid)

AvctNext ==
  \/ AvctLinkUp
  \/ AvctBcbChnlOpen
  \/ AvctConnectInd
  \/ AvctError
  \/ AvctConnectCfmOk
  \/ AvctConnectCfmFailed
  \/ AvctConfigCfm
  \/ AvctConfigInd
  \/ AvctDisconnectInd
  \/ AvctCongestionInd
  \/ AvctDataInd

SpecAvct == AvctInit /\ [][AvctNext]_vars

(***************************************************************************)
(* The A2DP audio transport.  A state machine of its own: the audio HAL    *)
(* asks to start, suspend and stop the stream, btif_av opens, starts,      *)
(* suspends and closes it and acknowledges, and the session ends.          *)
(***************************************************************************)

\* The handler's result becomes the state; last.arg is what it returned.
A2dpObserve(result, av, op) ==
  \E r \in {result} :
    /\ a2dp_pending_cmd_' = r.cmd
    /\ av_stream' = av
    /\ active_hal_interface' = r.hal
    /\ last' = [op |-> op, arg |-> r.ret, calls |-> Calls(r)]
    /\ UNCHANGED <<tcb, idle, cm, dcr, cl_rcb, flags, prev, srv_chg, avct_lcb,
                   avct_bcb>>

\* The audio HAL calls the transport of the active interface.
A2dpStartRequest ==
  \E call_idle \in BOOLEAN, lea_iso_active \in BOOLEAN, peer_is_src \in BOOLEAN :
    /\ active_hal_interface # "nullptr"
    /\ A2dpObserve(StartRequest(A2dpCur, call_idle, lea_iso_active,
                                peer_is_src),
                   av_stream, "StartRequest")

A2dpSuspendRequest ==
  /\ active_hal_interface # "nullptr"
  /\ A2dpObserve(SuspendRequest(A2dpCur), av_stream, "SuspendRequest")

A2dpStopRequest ==
  \E peer_is_snk \in BOOLEAN :
    /\ active_hal_interface # "nullptr"
    /\ A2dpObserve(StopRequest(A2dpCur, peer_is_snk), av_stream, "StopRequest")

A2dpInitHal ==
  \E aidl_available \in BOOLEAN, valid \in BOOLEAN, offload_enabled \in BOOLEAN :
    A2dpObserve(init(A2dpCur, aidl_available, valid, offload_enabled),
                av_stream, "init")

A2dpCleanup ==
  A2dpObserve(cleanup(A2dpCur), av_stream, "cleanup")

\* btif_av opens the stream to the peer, or closes it.
A2dpStreamOpenClose ==
  \E av \in {"closed", "open"} :
    /\ av # av_stream
    /\ av = "open" => av_stream = "closed"
    /\ A2dpObserve(A2dpCur, av, "btif_av")

\* btif_av acknowledges a start: the stream is started when it succeeded.
A2dpAckStreamStarted ==
  \E ack \in AudioStatuses :
    /\ av_stream = "open"
    /\ A2dpObserve(ack_stream_started(A2dpCur, ack),
                   IF ack = "SUCCESS" THEN "started" ELSE av_stream,
                   "ack_stream_started")

\* btif_av acknowledges a suspend or a stop: the stream is no longer started
\* when it succeeded.
A2dpAckStreamSuspended ==
  \E ack \in AudioStatuses :
    /\ av_stream # "closed"
    /\ A2dpObserve(ack_stream_suspended(A2dpCur, ack),
                   IF ack = "SUCCESS" THEN "open" ELSE av_stream,
                   "ack_stream_suspended")

A2dpEndSession ==
  A2dpObserve(end_session(A2dpCur), av_stream, "end_session")

A2dpNext ==
  \/ A2dpStartRequest
  \/ A2dpSuspendRequest
  \/ A2dpStopRequest
  \/ A2dpStreamOpenClose
  \/ A2dpAckStreamStarted
  \/ A2dpAckStreamSuspended
  \/ A2dpEndSession
  \/ A2dpInitHal
  \/ A2dpCleanup

SpecA2dp == DynInit /\ [][A2dpNext]_vars

(***************************************************************************)
(* The connection timeout.  A state machine of the ATT fixed               *)
(* channel alone: applications connect to the peer, hold and release its   *)
(* link, and the connection manager reports that a connection timed out,   *)
(* with enumerate_gatt_errors enabled or disabled.                         *)
(***************************************************************************)

CmInit ==
  /\ tcb = [i \in Slots |-> EmptyTcb]
  /\ idle = [a \in Addrs |-> default_idle_tout]
  /\ cm = [a \in Addrs |-> {}]
  /\ dcr = [c \in GattIfs |-> {}]
  /\ cl_rcb = [n \in GattIfs |->
                 IF n \in Callers
                 THEN [in_use |-> TRUE, p_conn_cb |-> TRUE,
                       p_congestion_cb |-> TRUE]
                 ELSE [in_use |-> FALSE, p_conn_cb |-> FALSE,
                       p_congestion_cb |-> FALSE]]
  /\ flags \in EnumerateFlagSettings
  /\ last = [op |-> "init", arg |-> 0, calls |-> {}]
  /\ prev = [i \in Slots |-> NoSession]
  /\ AvctNoLink
  /\ A2dpNoSession
  /\ srv_chg = NoSrvChg

CmActConnect ==
  \E c \in Callers, a \in Addrs, le_ok \in BOOLEAN :
    Observe(gatt_act_connect(Cur, c, a, BT_TRANSPORT_LE, 0, le_ok, TRUE),
            "gatt_act_connect", a, FALSE)

CmUpdateAppUseLinkFlag ==
  \E c \in Callers, i \in Live, is_add \in BOOLEAN, chk \in BOOLEAN :
    Observe(gatt_update_app_use_link_flag(Cur, c, i, is_add, chk, TRUE),
            "gatt_update_app_use_link_flag", i, FALSE)

CmDisconnect ==
  \E i \in Live :
    Observe(gatt_disconnect(Cur, i), "gatt_disconnect", i, FALSE)

CmLeConnectCback ==
  \E a \in Addrs, connected \in BOOLEAN :
    Observe(gatt_le_connect_cback(Cur, a, connected,
                                  GATT_CONN_TERMINATE_PEER_USER,
                                  BT_TRANSPORT_LE, TRUE),
            IF connected THEN "gatt_le_connect_cback(connected)"
            ELSE "gatt_le_connect_cback(disconnected)", a, FALSE)

\* The connection manager reports the timeout of a connection an
\* application asked it for.
CmConnectionTimedOut ==
  \E a \in Addrs :
    \E app_id \in cm[a] :
      Observe(on_connection_timed_out(Cur, app_id, a),
              "on_connection_timed_out", a, FALSE)

CmNext ==
  \/ CmActConnect
  \/ CmUpdateAppUseLinkFlag
  \/ CmDisconnect
  \/ CmLeConnectCback
  \/ CmConnectionTimedOut

SpecCm == CmInit /\ [][CmNext]_vars

(***************************************************************************)
(* The service changed indication: sessions of a bonded and of an unbonded *)
(* peer open and close while the database changes; no application is       *)
(* registered.                                                             *)
(***************************************************************************)

SrvInit ==
  /\ tcb = [i \in Slots |-> EmptyTcb]
  /\ idle = [a \in Addrs |-> default_idle_tout]
  /\ cm = [a \in Addrs |-> {}]
  /\ dcr = [c \in GattIfs |-> {}]
  /\ cl_rcb = [n \in GattIfs |->
                 [in_use |-> FALSE, p_conn_cb |-> FALSE,
                  p_congestion_cb |-> FALSE]]
  /\ flags \in DropAclFlagSettings
  /\ ~flags.gatt_drop_acl_on_out_of_resources_fix
  /\ last = [op |-> "init", arg |-> 0, calls |-> {}]
  /\ prev = [i \in Slots |-> NoSession]
  /\ AvctNoLink
  /\ A2dpNoSession
  /\ \E listed \in BOOLEAN, handle_of_h_r \in BOOLEAN,
        interop \in SUBSET {IdentityAddr} :
       srv_chg = [NoSrvChg EXCEPT
                    !.bonded = {IdentityAddr},
                    !.handle_of_h_r = handle_of_h_r,
                    !.interop = interop,
                    !.clt[IdentityAddr].listed = listed]

SrvLeConnectCback ==
  \E a \in Addrs, connected \in BOOLEAN :
    Observe(gatt_le_connect_cback(Cur, a, connected,
                                  GATT_CONN_TERMINATE_PEER_USER,
                                  BT_TRANSPORT_LE, TRUE),
            IF connected THEN "gatt_le_connect_cback(connected)"
            ELSE "gatt_le_connect_cback(disconnected)", a, FALSE)

SrvL2cConnectInd ==
  \E a \in Addrs, lcid \in EnvCids \ UsedCids :
    Observe(gatt_l2cif_connect_ind_cback(Cur, a, lcid),
            "gatt_l2cif_connect_ind_cback", a, FALSE)

SrvL2cConfigCfm ==
  \E i \in Live, mtu \in EnvMtus :
    /\ tcb[i].att_lcid # L2CAP_ATT_CID
    /\ Observe(gatt_l2cif_config_cfm_cback(Cur, tcb[i].att_lcid, mtu, TRUE),
               "gatt_l2cif_config_cfm_cback", tcb[i].peer_bda, FALSE)

\* The MTU of a configuration indication: none, below, at and above
\* L2CAP_DEFAULT_MTU.
CfgMtus == {0, 48, L2CAP_DEFAULT_MTU - 1, L2CAP_DEFAULT_MTU,
            L2CAP_DEFAULT_MTU + 1, 65535}

SrvL2cConfigInd ==
  \E i \in Live, mtu \in CfgMtus :
    /\ tcb[i].att_lcid # L2CAP_ATT_CID
    /\ Observe(gatt_l2cif_config_ind_cback(Cur, tcb[i].att_lcid, mtu),
               "gatt_l2cif_config_ind_cback", tcb[i].peer_bda, FALSE)

SrvL2cDisconnectInd ==
  \E i \in Live :
    /\ tcb[i].att_lcid # L2CAP_ATT_CID
    /\ Observe(gatt_l2cif_disconnect_ind_cback(Cur, tcb[i].att_lcid),
               "gatt_l2cif_disconnect_ind_cback", tcb[i].peer_bda, FALSE)

SrvDisconnect ==
  \E i \in Live :
    Observe(gatt_disconnect(Cur, i), "gatt_disconnect", tcb[i].peer_bda,
            FALSE)

SrvProcSrvChg ==
  \E pending \in SUBSET Slots :
    Observe(gatt_proc_srv_chg(Cur, pending), "gatt_proc_srv_chg", 0, FALSE)

SrvNext ==
  \/ SrvLeConnectCback
  \/ SrvL2cConnectInd
  \/ SrvL2cConfigCfm
  \/ SrvL2cConfigInd
  \/ SrvL2cDisconnectInd
  \/ SrvDisconnect
  \/ SrvProcSrvChg

SpecSrvChg == SrvInit /\ [][SrvNext]_vars

(***************************************************************************)
(* Properties of the session table and of the holder set.                  *)
(***************************************************************************)

\* C1: whatever the connect requests, connect indications, fixed-channel
\* callbacks, disconnects and address consolidations, the table never holds
\* two live sessions with the same (peer address, transport) pair.
C1_OneSessionPerPeer ==
  \A i, j \in Slots :
    /\ tcb[i].in_use /\ tcb[j].in_use
    /\ tcb[i].peer_bda = tcb[j].peer_bda
    /\ tcb[i].transport = tcb[j].transport
    => i = j

\* C2: in every reachable state a session whose channel state is Closed has an
\* empty holder set.
C2_ClosedHasNoHolder ==
  \A i \in Slots :
    tcb[i].ch_state = GATT_CH_CLOSE => tcb[i].app_hold_link = {}

\* The release of the last holder has torn the session down: no session is
\* left, and the slot it was in is Closed with no holder.
C2_Witness ==
  /\ last.op = "gatt_update_app_use_link_flag"
  /\ {"hold_removed", "conn_cb"} \subseteq last.calls
  /\ \A i \in Slots :
       tcb[i].ch_state = GATT_CH_CLOSE /\ tcb[i].app_hold_link = {}

\* C3: in every reachable state a slot of the table is in use if and only if
\* its channel state is not Closed.
C3_InUseIffNotClosed ==
  \A i \in Slots : tcb[i].in_use <=> tcb[i].ch_state # GATT_CH_CLOSE

\* A connect indication has put a session in a slot, in Configuring, and the
\* other slot is free and Closed.
C3_Witness ==
  /\ last.op = "gatt_l2cif_connect_ind_cback"
  /\ \E i, j \in Slots :
       /\ tcb[i].in_use /\ tcb[i].ch_state = GATT_CH_CFG
       /\ ~tcb[j].in_use /\ tcb[j].ch_state = GATT_CH_CLOSE

\* C4, as claimed: a session's holder set is non-empty only if its channel
\* state is Connecting, Configuring or Open; no session in Closing has a
\* holder.
C4_HoldersOnlyTowardOpen ==
  \A i \in Slots :
    tcb[i].app_hold_link # {}
      => tcb[i].ch_state \in {GATT_CH_CONN, GATT_CH_CFG, GATT_CH_OPEN}

\* C4, amended: a session's holder set is non-empty only if its channel state
\* is Connecting, Configuring or Open, or if it is a fixed-channel session in
\* Closing (gatt_disconnect of an Open fixed channel keeps the holders); a
\* dynamic-channel session is never in Closing.
C4_HoldersOnlyWhileLive ==
  \A i \in Slots :
    /\ tcb[i].app_hold_link # {}
         => \/ tcb[i].ch_state \in {GATT_CH_CONN, GATT_CH_CFG, GATT_CH_OPEN}
            \/ /\ tcb[i].ch_state = GATT_CH_CLOSING
               /\ tcb[i].att_lcid = L2CAP_ATT_CID
    /\ tcb[i].ch_state = GATT_CH_CLOSING => tcb[i].att_lcid = L2CAP_ATT_CID

\* gatt_disconnect has left a fixed-channel session in Closing with a holder.
C4_Witness ==
  /\ last.op = "gatt_disconnect"
  /\ \E i \in Slots :
       /\ tcb[i].ch_state = GATT_CH_CLOSING
       /\ tcb[i].att_lcid = L2CAP_ATT_CID
       /\ tcb[i].app_hold_link # {}

(***************************************************************************)
(* Properties of hold and release (gatt_update_app_use_link_flag).  Each   *)
(* one is about the call made in the present state: r is the control block *)
(* the call gives.                                                         *)
(***************************************************************************)

\* The sessions on the ATT fixed channel and on a dynamic channel.
FixedChannel(i) == tcb[i].in_use /\ tcb[i].att_lcid = L2CAP_ATT_CID
DynamicChannel(i) == tcb[i].in_use /\ tcb[i].att_lcid # L2CAP_ATT_CID

\* C5, as claimed: in every reachable state, if the holder set of a
\* fixed-channel session is non-empty then its idle timeout is not armed,
\* whatever check_acl_link the hold and release calls were made with.
C5_HeldLinkNotArmed ==
  \A i \in Slots :
    FixedChannel(i) /\ tcb[i].app_hold_link # {}
      => idle[tcb[i].peer_bda] # GATT_LINK_IDLE_TIMEOUT_WHEN_NO_APP

\* C5, amended: a hold on a fixed-channel session adds the holder; made with
\* check_acl_link = true while the link-layer connection exists it sets the
\* idle timeout to the no-idle-timeout value in that step, and made with
\* check_acl_link = false, or without a link, it leaves the idle timeout as it
\* was (armed, if it was armed).
C5_HoldDisarmsCheckedLink ==
  \A c \in Callers, i \in Slots, chk \in BOOLEAN, v \in BOOLEAN :
    FixedChannel(i) =>
      \E r \in {gatt_update_app_use_link_flag(Cur, c, i, TRUE, chk, v)} :
        /\ r.tcb[i].app_hold_link = tcb[i].app_hold_link \cup {c}
        /\ chk /\ v =>
             r.idle[tcb[i].peer_bda] = GATT_LINK_NO_IDLE_TIMEOUT
        /\ ~(chk /\ v) => r.idle = idle

\* A hold has disabled an idle timeout: a fixed-channel session is held and
\* its link has no idle timeout.
C5_Witness ==
  /\ last.op = "gatt_update_app_use_link_flag"
  /\ {"hold_added", "GATT_SetIdleTimeout"} \subseteq last.calls
  /\ \E i \in Slots :
       /\ FixedChannel(i) /\ tcb[i].app_hold_link # {}
       /\ idle[tcb[i].peer_bda] = GATT_LINK_NO_IDLE_TIMEOUT

\* C6, as claimed: every release that empties the holder set of a
\* fixed-channel session whose link-layer connection exists sets the idle
\* timeout to GATT_LINK_IDLE_TIMEOUT_WHEN_NO_APP in that step.
C6_ReleaseArmsIdle ==
  \A c \in Callers, i \in Slots, chk \in BOOLEAN :
    FixedChannel(i) /\ tcb[i].app_hold_link = {c} =>
      \E r \in {gatt_update_app_use_link_flag(Cur, c, i, FALSE, chk, TRUE)} :
        r.idle[tcb[i].peer_bda] = GATT_LINK_IDLE_TIMEOUT_WHEN_NO_APP

\* C6, amended: a release made with check_acl_link = true that empties the
\* holder set of a fixed-channel session whose link-layer connection exists
\* sets the idle timeout to GATT_LINK_IDLE_TIMEOUT_WHEN_NO_APP in that step;
\* made with check_acl_link = false it empties the set and leaves the idle
\* timeout as it was.
C6_CheckedReleaseArmsIdle ==
  \A c \in Callers, i \in Slots, chk \in BOOLEAN :
    FixedChannel(i) /\ tcb[i].app_hold_link = {c} =>
      \E r \in {gatt_update_app_use_link_flag(Cur, c, i, FALSE, chk, TRUE)} :
        /\ r.tcb[i].app_hold_link = {}
        /\ r.tcb[i].ch_state = tcb[i].ch_state
        /\ chk => /\ r.idle[tcb[i].peer_bda] =
                        GATT_LINK_IDLE_TIMEOUT_WHEN_NO_APP
                  /\ "GATT_SetIdleTimeout" \in Calls(r)
        /\ ~chk => r.idle = idle /\ Calls(r) = {"hold_removed"}

\* The release of the last holder has armed the idle timeout of a
\* fixed-channel session.
C6_Witness ==
  /\ last.op = "gatt_update_app_use_link_flag"
  /\ {"hold_removed", "GATT_SetIdleTimeout"} \subseteq last.calls
  /\ \E i \in Slots :
       /\ FixedChannel(i) /\ tcb[i].app_hold_link = {}
       /\ idle[tcb[i].peer_bda] = GATT_LINK_IDLE_TIMEOUT_WHEN_NO_APP

C8_ReleaseByNonHolder ==
  \A c \in Callers, i \in Slots, chk \in BOOLEAN, v \in BOOLEAN :
    tcb[i].in_use /\ c \notin tcb[i].app_hold_link =>
      \E r \in {gatt_update_app_use_link_flag(Cur, c, i, FALSE, chk, v)} :
        /\ ~r.upd
        /\ r.tcb = tcb /\ r.idle = idle /\ r.cm = cm /\ r.dcr = dcr
        /\ Calls(r) = {"hold_missing"}
        /\ \E r2 \in {gatt_update_app_use_link_flag(r, c, i, FALSE, chk, v)} :
             /\ ~r2.upd
             /\ r2.tcb = tcb /\ r2.idle = idle /\ r2.cm = cm /\ r2.dcr = dcr
             /\ Calls(r2) = {"hold_missing"}

\* A client that does not hold the session has released it.
C8_Witness ==
  /\ last.op = "gatt_update_app_use_link_flag"
  /\ last.calls = {"hold_missing"}
  /\ \E i \in Slots : tcb[i].in_use /\ tcb[i].app_hold_link # Callers

\* C9: hold returns true whether the client is added or is present already,
\* and holding the same client twice leaves the holder set as holding it once
\* does.
C9_HoldIdempotent ==
  \A c \in Callers, i \in Slots, chk \in BOOLEAN, v \in BOOLEAN :
    tcb[i].in_use =>
      \E r \in {gatt_update_app_use_link_flag(Cur, c, i, TRUE, chk, v)} :
        /\ r.upd
        /\ r.tcb[i].app_hold_link = tcb[i].app_hold_link \cup {c}
        /\ \E r2 \in {gatt_update_app_use_link_flag(r, c, i, TRUE, chk, v)} :
             /\ r2.upd
             /\ r2.tcb[i].app_hold_link = r.tcb[i].app_hold_link

\* A client that holds the session already has held it again.
C9_Witness ==
  /\ last.op = "gatt_update_app_use_link_flag"
  /\ "hold_existing" \in last.calls
  /\ \E i \in Slots : tcb[i].in_use /\ tcb[i].app_hold_link # {}

\* The connection callbacks a handler made with reason OK: the applications
\* told that the peer is connected.
ToldConnected(r, bda) ==
  {r.ev[k][2] : k \in {n \in DOMAIN r.ev :
                         /\ r.ev[n][1] = "conn_cb"
                         /\ r.ev[n][3] = bda
                         /\ r.ev[n][5]
                         /\ r.ev[n][6] = GATT_CONN_OK}}

\* C10: when a session becomes Open (the fixed channel of the peer is
\* reported connected), every registered client with an outstanding connection
\* request for the peer is added to the holder set and is told the peer is
\* connected with reason OK: two requesting clients are both holders.
C10_OpenHoldsRequesters ==
  \A a \in Addrs :
    \E i \in {gatt_find_tcb_by_addr(Cur, a, BT_TRANSPORT_LE)},
       r \in {gatt_le_connect_cback(Cur, a, TRUE, GATT_CONN_OK,
                                    BT_TRANSPORT_LE, TRUE)} :
      \E j \in {gatt_find_tcb_by_addr(r, a, BT_TRANSPORT_LE)} :
        /\ j # NoTcb
        /\ i # NoTcb => tcb[i].ch_state = GATT_CH_CONN
        => /\ r.tcb[j].ch_state = GATT_CH_OPEN
           /\ \A c \in GattIfs :
                cl_rcb[c].in_use /\ c \in cm[a]
                  => c \in r.tcb[j].app_hold_link /\ c \in ToldConnected(r, a)

\* C11 (scenario A): from an empty table with no connection request
\* outstanding, after client X calls connect for an LE peer and the fixed
\* channel reports the link connected, the session is Open, X has received
\* exactly one connection-opened callback with reason OK, the holder set is
\* {X} and the idle timeout is disabled.
C11_ScenarioA ==
  \A c \in Callers :
    /\ Live = {}
    /\ \A a \in Addrs : cm[a] = {}
    /\ \A n \in GattIfs : dcr[n] = {}
    => \E r1 \in {gatt_act_connect(Cur, c, IdentityAddr, BT_TRANSPORT_LE, 0,
                                   TRUE, TRUE)} :
       \E r2 \in {gatt_le_connect_cback(r1, IdentityAddr, TRUE, GATT_CONN_OK,
                                        BT_TRANSPORT_LE, TRUE)} :
       \E j \in {gatt_find_tcb_by_addr(r2, IdentityAddr, BT_TRANSPORT_LE)} :
         /\ r1.ret
         /\ j # NoTcb
         /\ r2.tcb[j].ch_state = GATT_CH_OPEN
         /\ r2.tcb[j].app_hold_link = {c}
         /\ r2.idle[IdentityAddr] = GATT_LINK_NO_IDLE_TIMEOUT
         /\ Cardinality({k \in DOMAIN r2.ev :
                           /\ r2.ev[k][1] = "conn_cb"
                           /\ r2.ev[k][2] = c
                           /\ r2.ev[k][5]
                           /\ r2.ev[k][6] = GATT_CONN_OK}) = 1

(***************************************************************************)
(* Properties of the congestion and data indications.                      *)
(***************************************************************************)

\* The congestion event of session i, as L2CAP delivers it: by the peer
\* address for the fixed channel, by the channel id for a dynamic channel.
CongestionEvent(i, congested) ==
  IF tcb[i].att_lcid = L2CAP_ATT_CID
  THEN gatt_le_cong_cback(Cur, tcb[i].peer_bda, congested)
  ELSE gatt_l2cif_congest_cback(Cur, tcb[i].att_lcid, congested)

\* The positions in the calls of r of the calls named name.
CallsAt(r, name) == {k \in DOMAIN r.ev : r.ev[k][1] = name}

\* C12: on a congestion-changed event to uncongested for a session, the
\* queued outbound commands of that session are resumed, once, before the
\* congestion callback of any registered client is invoked; every registered
\* client is then told, and the control block is left as it was.
C12_ResumeBeforeNotify ==
  \A i \in Live :
    \E r \in {CongestionEvent(i, FALSE)} :
      /\ Cardinality(CallsAt(r, "gatt_cl_send_next_cmd_inq")) = 1
      /\ \A k \in CallsAt(r, "gatt_cl_send_next_cmd_inq") :
           /\ r.ev[k][2] = i
           /\ \A m \in CallsAt(r, "congestion_cb") : k < m
      /\ \A n \in GattIfs :
           cl_rcb[n].in_use /\ cl_rcb[n].p_congestion_cb
             => \E m \in CallsAt(r, "congestion_cb") :
                  r.ev[m] = <<"congestion_cb", n, GATT_CREATE_CONN_ID(i, n),
                              FALSE>>
      /\ r.tcb = tcb /\ r.idle = idle /\ r.cm = cm /\ r.dcr = dcr

\* An uncongested event has resumed the commands of a session and told the
\* applications.
C12_Witness ==
  /\ last.op \in {"gatt_le_cong_cback", "gatt_l2cif_congest_cback"}
  /\ {"gatt_cl_send_next_cmd_inq", "congestion_cb"} \subseteq last.calls
  /\ Live # {}

\* C13: inbound data is handed to gatt_data_process only when a session
\* exists for its source and the channel state of that session is Open (and
\* then it is, unless the arbiter drops the packet); data for a session in
\* any other state, or for no session, is dropped: the buffer is freed and
\* the control block is left as it was.
C13_DataOnlyWhenOpen ==
  /\ \A a \in Addrs, drop \in BOOLEAN :
       \E i \in {gatt_find_tcb_by_addr(Cur, a, BT_TRANSPORT_LE)},
          r \in {gatt_le_data_ind(Cur, a, drop)} :
         /\ r.tcb = tcb /\ r.idle = idle /\ r.cm = cm /\ r.dcr = dcr
         /\ IF i # NoTcb /\ tcb[i].ch_state = GATT_CH_OPEN /\ ~drop
            THEN r.ev = <<<<"gatt_data_process", i, L2CAP_ATT_CID>>,
                          <<"osi_free">>>>
            ELSE r.ev = <<<<"osi_free">>>>
  /\ \A lcid \in EnvCids :
       \E i \in {gatt_find_tcb_by_cid(Cur, lcid)},
          r \in {gatt_l2cif_data_ind_cback(Cur, lcid)} :
         /\ r.tcb = tcb /\ r.idle = idle /\ r.cm = cm /\ r.dcr = dcr
         /\ IF i # NoTcb /\ tcb[i].ch_state = GATT_CH_OPEN
            THEN r.ev = <<<<"gatt_data_process", i, lcid>>, <<"osi_free">>>>
            ELSE r.ev = <<<<"osi_free">>>>

\* Data of the fixed channel has arrived for a session that is not Open yet
\* and has been dropped.
C13_Witness ==
  /\ last.op = "gatt_le_data_ind"
  /\ last.calls = {"osi_free"}
  /\ \E i \in Live :
       /\ tcb[i].peer_bda = last.arg
       /\ tcb[i].transport = BT_TRANSPORT_LE
       /\ tcb[i].ch_state \in {GATT_CH_CONN, GATT_CH_CLOSING}

(***************************************************************************)
(* Properties of the connect confirm and of the stale callbacks.           *)
(***************************************************************************)

\* C14: gatt_disconnect of a session whose connect is still pending (state
\* Connecting) moves the session to Closing or Closed, and a connect confirm
\* that later arrives for the channel id of that session, with whatever
\* result, changes the state of no session.
C14_DisconnectCancelsConnect ==
  \A i \in Live :
    tcb[i].ch_state = GATT_CH_CONN =>
      \E r \in {gatt_disconnect(Cur, i)} :
        /\ r.ret
        /\ r.tcb[i].ch_state \in {GATT_CH_CLOSING, GATT_CH_CLOSE}
        /\ DynamicChannel(i) =>
             \A ok \in BOOLEAN :
               \E r2 \in {gatt_l2cif_connect_cfm_cback(r, tcb[i].att_lcid,
                                                        ok)} :
                 r2.tcb = r.tcb

\* C15 (scenario E): a stale connect confirm, one that carries the channel id
\* of a session that was freed, arriving when the slot of that session has
\* been reused for a different peer, is dropped: the state, the holder set
\* and the channel id of the new occupant are left as they were.
C15_StaleConfirmDropped ==
  \A i \in Live :
    prev[i] # NoSession /\ tcb[i].peer_bda # prev[i][1] =>
      \A ok \in BOOLEAN :
        \E r \in {gatt_l2cif_connect_cfm_cback(Cur, prev[i][2], ok)} :
          r.tcb[i] = tcb[i]

(***************************************************************************)
(* Properties of the browsing channel.                                     *)
(***************************************************************************)

\* The browsing channels an inbound connection conflicts with: allocated on
\* a link whose control channel is passive, and not open.
AvctConflicting ==
  {l \in AvctLinks : /\ avct_lcb[l].allocated # 0
                     /\ avct_bcb[l].allocated # 0
                     /\ avct_l2c_br_is_passive(AvctCur, l)
                     /\ avct_bcb[l].ch_state # AVCT_CH_OPEN}

\* C16: an inbound browsing connection for a peer whose browsing channel
\* exists in passive role and is not open is accepted, and the channel the
\* session had becomes its conflict channel; the connect confirm (OK) of that
\* channel then requests its disconnection and clears the conflict channel;
\* the session is opened by the configuration confirm of the new channel.
C16_ConflictKeepsNewChannel ==
  /\ \A l \in AvctConflicting, lcid \in AvctFreeCids, mtu \in AvctMtus :
       \E old \in {avct_bcb[l].ch_lcid} :
       \E r1 \in {avct_l2c_br_connect_ind_cback(AvctCur, AvctPeer(l), lcid)} :
       \E r2 \in {avct_l2c_br_connect_cfm_cback(r1, old, TRUE)} :
       \E r3 \in {avct_l2c_br_config_cfm_cback(r2, lcid, mtu)} :
         /\ r1.ev = <<>>
         /\ r1.bcb[l].ch_lcid = lcid
         /\ r1.bcb[l].ch_state = AVCT_CH_CFG
         /\ r1.bcb[l].conflict_lcid = old
         /\ r2.ev = <<<<"L2CA_DisconnectReq", old>>>>
         /\ r2.bcb[l] = [r1.bcb[l] EXCEPT !.conflict_lcid = 0]
         /\ r3.bcb[l].ch_state = AVCT_CH_OPEN
         /\ r3.bcb[l].ch_lcid = lcid
         /\ r3.ev = Append(r2.ev, <<"avct_bcb_event", l, "AVCT_LCB_LL_OPEN_EVT">>)
  /\ \A l \in AvctLinks :
       avct_bcb[l].allocated # 0 /\ avct_bcb[l].conflict_lcid # 0 =>
         \E r \in {avct_l2c_br_connect_cfm_cback(
                      AvctCur, avct_bcb[l].conflict_lcid, TRUE)} :
           /\ r.ev = <<<<"L2CA_DisconnectReq", avct_bcb[l].conflict_lcid>>>>
           /\ r.bcb = [avct_bcb EXCEPT ![l].conflict_lcid = 0]

\* The confirm of a conflict channel was answered with a disconnection, and
\* the session it conflicted with is open on the other channel.
C16_Witness ==
  /\ last.op = "avct_l2c_br_connect_cfm_cback(ok)"
  /\ "L2CA_DisconnectReq" \in last.calls
  /\ \E l \in AvctLinks :
       /\ avct_lcb[l].passive
       /\ avct_bcb[l].ch_state = AVCT_CH_OPEN
       /\ avct_bcb[l].ch_lcid # last.arg
       /\ avct_bcb[l].conflict_lcid = 0

(***************************************************************************)
(* Properties of the service changed indication.                           *)
(***************************************************************************)

\* The sessions gatt_l2cif_config_cfm_cback would open.
Configuring == {i \in Live : tcb[i].ch_state = GATT_CH_CFG}

\* The indications a session opening for the peer must send: one if the
\* peer is owed one and the characteristic is registered, else none.
Owed(a) ==
  IF srv_chg.clt[a].srv_changed /\ srv_chg.handle_of_h_r THEN 1 ELSE 0

Refused ==
  {k \in PeerKeys : /\ Live = Slots
                    /\ gatt_find_tcb_by_addr(Cur, k[1], k[2]) = NoTcb}

\* What a handler left as it was: the sessions, the idle timeouts and the
\* connecting applications.
Untouched(r) ==
  /\ r.tcb = tcb
  /\ r.idle = idle
  /\ r.cm = cm
  /\ r.dcr = dcr

\* C18: with no free block, a link to a peer that has no session is refused:
\* gatt_act_connect returns false and calls nothing, the connect indication
\* of a BR/EDR peer is answered with L2CA_DisconnectReq for its channel and
\* nothing else, the connection of an LE peer creates no session and drops
\* the link exactly when gatt_drop_acl_on_out_of_resources_fix is enabled;
\* no session changes and no application is called.
C18_FullTableRefuses ==
  \A k \in Refused :
    /\ \A c \in LinkCallers, l2c_lcid \in EnvCids \cup {0}, le_ok \in BOOLEAN :
         \E r \in {gatt_act_connect(Cur, c, k[1], k[2], l2c_lcid, le_ok,
                                    TRUE)} :
           ~r.ret /\ r.ev = <<>> /\ Untouched(r)
    /\ k[2] = BT_TRANSPORT_BR_EDR =>
         \A lcid \in EnvCids :
           \E r \in {gatt_l2cif_connect_ind_cback(Cur, k[1], lcid)} :
             r.ev = <<<<"L2CA_DisconnectReq", lcid>>>> /\ Untouched(r)
    /\ k[2] = BT_TRANSPORT_LE =>
         \E r \in {gatt_le_connect_cback(Cur, k[1], TRUE, GATT_CONN_OK,
                                         BT_TRANSPORT_LE, TRUE)} :
           /\ r.ev = IF flags.gatt_drop_acl_on_out_of_resources_fix
                     THEN <<<<"btm_remove_acl", k[1]>>>> ELSE <<>>
           /\ Untouched(r)

\* The connection of an LE peer was refused with the table full, and the
\* link dropped.
C18_Witness ==
  /\ last.op = "gatt_le_connect_cback(connected)"
  /\ last.calls = {"btm_remove_acl"}
  /\ <<last.arg, BT_TRANSPORT_LE>> \in Refused

\* The sessions of a dynamic channel that wait for the connect confirm.
Connecting ==
  {i \in Live : /\ tcb[i].att_lcid # L2CAP_ATT_CID
                /\ tcb[i].ch_state = GATT_CH_CONN}

\* C19: the connect confirm with result OK for the channel of a session in
\* Connecting sets that session to Configuring, changes no other session and
\* calls nothing.
C19_ConfirmOkConfigures ==
  \A i \in Connecting :
    \E r \in {gatt_l2cif_connect_cfm_cback(Cur, tcb[i].att_lcid, TRUE)} :
      /\ r.tcb = [tcb EXCEPT ![i].ch_state = GATT_CH_CFG]
      /\ r.ev = <<>>
      /\ r.idle = idle /\ r.cm = cm /\ r.dcr = dcr

\* A confirm with result OK found its session in Connecting, while the
\* other block held a session too.
C19_Witness ==
  /\ last.op = "gatt_l2cif_connect_cfm_cback(ok)"
  /\ Live = Slots
  /\ \E i \in Live : /\ tcb[i].att_lcid = last.arg
                      /\ tcb[i].ch_state = GATT_CH_CFG
                      /\ tcb[i].app_hold_link # {}

\* The same for the browsing channel (avct_l2c_br_connect_cfm_cback).
AvctConfirmOkConfigures ==
  \A l \in AvctLinks :
    avct_bcb[l].allocated # 0 /\ avct_bcb[l].ch_state = AVCT_CH_CONN =>
      \E r \in {avct_l2c_br_connect_cfm_cback(AvctCur, avct_bcb[l].ch_lcid,
                                              TRUE)} :
        /\ r.bcb = [avct_bcb EXCEPT ![l].ch_state = AVCT_CH_CFG]
        /\ r.ev = <<>>

\* C20: a failed connect confirm, or an L2CAP error, for the channel of a
\* BR/EDR session in Connecting frees the session, and every registered
\* application is told of the disconnection with GATT_CONN_L2C_FAILURE;
\* no other session changes.
C20_FailedConfirmFrees ==
  \A i \in Connecting :
    \A r \in {gatt_l2cif_connect_cfm_cback(Cur, tcb[i].att_lcid, FALSE),
              gatt_on_l2cap_error(Cur, tcb[i].att_lcid, FALSE)} :
      /\ r.tcb = [tcb EXCEPT ![i] = EmptyTcb]
      /\ \A n \in Callers :
           Cardinality({x \in DOMAIN r.ev :
                          r.ev[x] = <<"conn_cb", n, tcb[i].peer_bda,
                                      GATT_CREATE_CONN_ID(i, n), FALSE,
                                      GATT_CONN_L2C_FAILURE,
                                      BT_TRANSPORT_BR_EDR>>}) = 1
      /\ Len(r.ev) = Cardinality(Callers)

\* A failed confirm freed the session that an application was connecting.
C20_Witness ==
  /\ last.op = "gatt_l2cif_connect_cfm_cback(failed)"
  /\ last.calls = {"conn_cb"}
  /\ \E i \in Slots : /\ ~tcb[i].in_use
                       /\ prev[i][2] = last.arg

(***************************************************************************)
(* Properties of the channel state transitions.                            *)
(***************************************************************************)

\* The browsing channels that wait for the connect confirm.
AvctConnecting ==
  {l \in AvctLinks : /\ avct_bcb[l].allocated # 0
                     /\ avct_bcb[l].ch_state = AVCT_CH_CONN}

\* C21: a connect confirm with a result other than OK for the channel id of a
\* browsing channel in AVCT_CH_CONN closes the channel: the channel is freed
\* and is no longer in AVCT_CH_CONN.
C21_AvctFailedConfirmCloses ==
  \A l \in AvctConnecting :
    \E r \in {avct_l2c_br_connect_cfm_cback(AvctCur, avct_bcb[l].ch_lcid,
                                            FALSE)} :
      r.bcb[l].ch_state # AVCT_CH_CONN

\* The channel state of every session after a handler.
ChStates(r) == [i \in Slots |-> r.tcb[i].ch_state]

\* C22: the configuration confirm for the channel id of a session in
\* Configuring opens that session and calls the connection callback of every
\* registered application, with no other channel state changed; for a
\* session in another state, or a channel id no session has, it changes no
\* channel state and calls no connection callback.
C22_ConfigCfmOpensIffConfiguring ==
  \A lcid \in DynCids, mtu \in EnvMtus :
    \E i \in {gatt_find_tcb_by_cid(Cur, lcid)} :
    \E r \in {gatt_l2cif_config_cfm_cback(Cur, lcid, mtu, TRUE)} :
      IF i # NoTcb /\ tcb[i].ch_state = GATT_CH_CFG
      THEN /\ ChStates(r) = [ChStates(Cur) EXCEPT ![i] = GATT_CH_OPEN]
           /\ ToldConnected(r, tcb[i].peer_bda) = Callers
      ELSE /\ ChStates(r) = ChStates(Cur)
           /\ CallsAt(r, "conn_cb") = {}

\* A configuration confirm opened a session and the applications were told;
\* the other block holds a session that is not Configuring.
C22_Witness ==
  /\ last.op = "gatt_l2cif_config_cfm_cback"
  /\ "conn_cb" \in last.calls
  /\ \E i \in Live : /\ tcb[i].att_lcid = last.arg
                     /\ tcb[i].ch_state = GATT_CH_OPEN
  /\ \E j \in Live : tcb[j].ch_state = GATT_CH_CONN

\* The same for the browsing channel (avct_l2c_br_config_cfm_cback).
AvctConfigCfmOpensIffConfiguring ==
  \A lcid \in AvctCids, mtu \in AvctMtus :
    \E l \in {avct_bcb_by_lcid(AvctCur, lcid)} :
    \E r \in {avct_l2c_br_config_cfm_cback(AvctCur, lcid, mtu)} :
      IF l # NoLink /\ avct_bcb[l].ch_state = AVCT_CH_CFG
      THEN /\ r.bcb[l].ch_state = AVCT_CH_OPEN
           /\ \A m \in AvctLinks \ {l} : r.bcb[m] = avct_bcb[m]
           /\ r.ev = <<<<"avct_bcb_event", l, "AVCT_LCB_LL_OPEN_EVT">>>>
      ELSE /\ \A m \in AvctLinks : r.bcb[m].ch_state = avct_bcb[m].ch_state
           /\ r.ev = <<>>

\* The sessions in GATT_CH_OPEN.
Opened == {i \in Live : tcb[i].ch_state = GATT_CH_OPEN}

\* C23, as claimed: gatt_disconnect of an open session leaves a session of a
\* dynamic channel in the table in GATT_CH_CLOSING, with the teardown asked of
\* L2CAP, and frees a session of the fixed channel at once.
C23_DisconnectOpenAsClaimed ==
  \A i \in Opened :
    \E r \in {gatt_disconnect(Cur, i)} :
      IF tcb[i].att_lcid # L2CAP_ATT_CID
      THEN /\ r.tcb[i].in_use
           /\ r.tcb[i].ch_state = GATT_CH_CLOSING
      ELSE r.tcb[i] = EmptyTcb

\* C23, amended: gatt_disconnect of an open session of a dynamic channel asks
\* L2CAP to disconnect the channel and frees the session at once; that of an
\* open session of the fixed channel removes the fixed channel and leaves the
\* session in the table in GATT_CH_CLOSING.  No other session changes.
C23_DisconnectOpen ==
  \A i \in Opened :
    \E r \in {gatt_disconnect(Cur, i)} :
      /\ r.ret
      /\ IF tcb[i].att_lcid # L2CAP_ATT_CID
         THEN /\ r.tcb = [tcb EXCEPT ![i] = EmptyTcb]
              /\ r.ev[1] = <<"L2CA_DisconnectReq", tcb[i].att_lcid>>
         ELSE /\ r.tcb = [tcb EXCEPT ![i].ch_state = GATT_CH_CLOSING]
              /\ r.ev = <<<<"L2CA_RemoveFixedChnl", tcb[i].peer_bda>>>>

\* gatt_disconnect left a fixed channel Closing while the other block holds
\* an open dynamic channel.
C23_Witness ==
  /\ last.op = "gatt_disconnect"
  /\ "L2CA_RemoveFixedChnl" \in last.calls
  /\ \E i \in Live : /\ tcb[i].att_lcid = L2CAP_ATT_CID
                     /\ tcb[i].ch_state = GATT_CH_CLOSING
  /\ \E j \in Opened : tcb[j].att_lcid # L2CAP_ATT_CID

C25_ConfirmIgnoredUnlessConnecting ==
  \A i \in Live :
    tcb[i].att_lcid # L2CAP_ATT_CID /\ tcb[i].ch_state # GATT_CH_CONN =>
      \A ok \in BOOLEAN :
        \E r \in {gatt_l2cif_connect_cfm_cback(Cur, tcb[i].att_lcid, ok)} :
          /\ r.tcb = tcb
          /\ r.ev = <<>>

(***************************************************************************)
(* Properties of the connect indication of the browsing channel.           *)
(***************************************************************************)

\* C26: the connect indication of a peer whose browsing channel is
\* allocated, passive and not open is accepted: L2CA_DisconnectReq is not
\* called, and of the browsing channels only that of the peer changes: its
\* conflict_lcid becomes the ch_lcid it had, its ch_lcid the new channel id
\* and its ch_state AVCT_CH_CFG.
C26_PassiveConflictAccepted ==
  \A l \in AvctConflicting, lcid \in AvctFreeCids :
    \E r \in {avct_l2c_br_connect_ind_cback(AvctCur, AvctPeer(l), lcid)} :
      /\ CallsAt(r, "L2CA_DisconnectReq") = {}
      /\ r.bcb = [avct_bcb EXCEPT ![l].conflict_lcid = avct_bcb[l].ch_lcid,
                                  ![l].ch_lcid = lcid,
                                  ![l].ch_state = AVCT_CH_CFG]

\* An indication was accepted for a channel that was opening from this
\* side: the channel has both channel ids.
C26_Witness ==
  /\ last.op = "avct_l2c_br_connect_ind_cback"
  /\ last.calls = {}
  /\ \E l \in AvctLinks :
       /\ avct_lcb[l].passive
       /\ avct_bcb[l].ch_lcid = last.arg
       /\ avct_bcb[l].conflict_lcid \in AvctCids
       /\ avct_bcb[l].ch_state = AVCT_CH_CFG

\* The browsing channels an inbound connection is rejected for: allocated,
\* and not passive or open already.
AvctRejecting ==
  {l \in AvctLinks : /\ avct_lcb[l].allocated # 0
                     /\ avct_bcb[l].allocated # 0
                     /\ \/ ~avct_l2c_br_is_passive(AvctCur, l)
                        \/ avct_bcb[l].ch_state = AVCT_CH_OPEN}

\* C27: the connect indication of a peer whose browsing channel is allocated
\* and is not passive, or is open, is rejected: L2CA_DisconnectReq is called
\* for the new channel id and nothing else, and no browsing channel changes.
C27_ExistingChannelRejects ==
  \A l \in AvctRejecting, lcid \in AvctFreeCids :
    \E r \in {avct_l2c_br_connect_ind_cback(AvctCur, AvctPeer(l), lcid)} :
      /\ r.ev = <<<<"L2CA_DisconnectReq", lcid>>>>
      /\ r.bcb = avct_bcb

\* An indication was rejected while every link had a browsing channel that
\* rejects, one of them passive and open.
C27_Witness ==
  /\ last.op = "avct_l2c_br_connect_ind_cback"
  /\ last.calls = {"L2CA_DisconnectReq"}
  /\ AvctRejecting = AvctLinks
  /\ \E l \in AvctLinks : /\ avct_lcb[l].passive
                          /\ avct_bcb[l].ch_state = AVCT_CH_OPEN

\* The browsing channels that hold a conflict channel id.
AvctInConflict ==
  {l \in AvctLinks : /\ avct_bcb[l].allocated # 0
                     /\ avct_bcb[l].conflict_lcid # 0}

\* C28: an L2CAP error, or a connect confirm with a result other than OK,
\* for the conflict channel id of a browsing channel does not close the
\* channel and raises no event of the channel: the channel keeps its
\* ch_lcid and its ch_state, and only the conflict channel id is forgotten.
C28_ConflictLossKeepsWinner ==
  \A l \in AvctInConflict :
    \A r \in {avct_br_on_l2cap_error(AvctCur, avct_bcb[l].conflict_lcid, 1),
              avct_l2c_br_connect_cfm_cback(AvctCur,
                                            avct_bcb[l].conflict_lcid,
                                            FALSE)} :
      /\ r.bcb = [avct_bcb EXCEPT ![l].conflict_lcid = 0]
      /\ CallsAt(r, "avct_bcb_event") = {}

(***************************************************************************)
(* Properties of the reason of a disconnection.                            *)
(***************************************************************************)

\* The results L2CAP reports for a connection or configuration that failed.
L2capResults == {"L2CAP_CONN_NO_RESOURCES", "L2CAP_CFG_FAILED_NO_REASON"}

\* The sessions of a dynamic channel.
Dynamic == {i \in Live : tcb[i].att_lcid # L2CAP_ATT_CID}

\* The reasons of the disconnection callbacks a handler made.
DisconnectReasons(r) ==
  {r.ev[k][6] : k \in {n \in DOMAIN r.ev : r.ev[n][1] = "conn_cb"
                                           /\ ~r.ev[n][5]}}

\* C29: gatt_on_l2cap_error frees the session of the channel and
\* the disconnection callbacks carry the result L2CAP reported.
C29_ReasonIsLowerLayerResult ==
  \A i \in Dynamic, result \in L2capResults :
    \E r \in {gatt_on_l2cap_error(Cur, tcb[i].att_lcid, result)} :
      /\ r.tcb = [tcb EXCEPT ![i] = EmptyTcb]
      /\ DisconnectReasons(r) = {result}

(***************************************************************************)
(* Properties of the peers that get no service changed indication.         *)
(***************************************************************************)

\* The peers that are owed an indication and whose stored name is matched
\* by INTEROP_GATTC_NO_SERVICE_CHANGED_IND.
Suppressed ==
  {a \in Addrs : srv_chg.clt[a].srv_changed /\ interop_match_name(Cur, a)}

\* C30: a session that opens for a peer that is owed a service changed
\* indication and whose stored name is matched by the interoperability list
\* sends the peer no indication and leaves the peer owed one.
C30_SuppressedPeerNotIndicated ==
  /\ \A a \in Suppressed :
       gatt_find_tcb_by_addr(Cur, a, BT_TRANSPORT_LE) = NoTcb
       /\ AllocSlot(Cur, a, BT_TRANSPORT_LE) # NoTcb =>
         \E r \in {gatt_le_connect_cback(Cur, a, TRUE, GATT_CONN_OK,
                                         BT_TRANSPORT_LE, TRUE)} :
           /\ IndicationsTo(r, a) = 0
           /\ r.srv.clt[a].srv_changed
  /\ \A i \in Configuring :
       tcb[i].peer_bda \in Suppressed =>
         \E r \in {gatt_l2cif_config_cfm_cback(Cur, tcb[i].att_lcid, 0, TRUE)} :
           /\ IndicationsTo(r, tcb[i].peer_bda) = 0
           /\ r.srv.clt[tcb[i].peer_bda].srv_changed

(***************************************************************************)
(* Properties of the connection timeout.                                   *)
(***************************************************************************)

\* C31: on_connection_timed_out frees the session of the peer over LE, if
\* there is one, and leaves every other session alone; the disconnection
\* callbacks it makes carry the reason 0x08 when enumerate_gatt_errors is
\* enabled and 0xff when it is disabled, and every registered application
\* gets one when a session was freed.
C31_TimeoutReasonByFlag ==
  \A a \in Addrs, app_id \in Callers :
    \E r \in {on_connection_timed_out(Cur, app_id, a)},
       i \in {gatt_find_tcb_by_addr(Cur, a, BT_TRANSPORT_LE)} :
      /\ gatt_find_tcb_by_addr(r, a, BT_TRANSPORT_LE) = NoTcb
      /\ i = NoTcb => r.tcb = tcb /\ r.ev = <<>>
      /\ i # NoTcb =>
           /\ r.tcb = [tcb EXCEPT ![i] = EmptyTcb]
           /\ Cardinality(CallsAt(r, "conn_cb")) = Cardinality(Callers)
           /\ DisconnectReasons(r) =
                {IF flags.enumerate_gatt_errors THEN 8 ELSE 255}

\* With enumerate_gatt_errors enabled, a connection an application asked
\* for timed out and the session of the peer was freed.
C31_Witness ==
  /\ last.op = "on_connection_timed_out"
  /\ "conn_cb" \in last.calls
  /\ flags.enumerate_gatt_errors
  /\ gatt_find_tcb_by_addr(Cur, last.arg, BT_TRANSPORT_LE) = NoTcb

(***************************************************************************)
(* Properties of the payload size.                                         *)
(***************************************************************************)

\* C32: after gatt_l2cif_config_ind_cback or gatt_l2cif_config_cfm_cback
\* for the channel of a session, the payload size of the session is the
\* smaller of the MTU of the peer and L2CAP_DEFAULT_MTU, and
\* L2CAP_DEFAULT_MTU when the peer gave none; the payload size of no
\* session of a dynamic channel exceeds L2CAP_DEFAULT_MTU.
C32_PayloadIsSmallerMtu ==
  /\ \A i \in Dynamic : tcb[i].payload_size <= L2CAP_DEFAULT_MTU
  /\ \A i \in Dynamic, mtu \in CfgMtus :
       \A r \in {gatt_l2cif_config_ind_cback(Cur, tcb[i].att_lcid, mtu),
                 gatt_l2cif_config_cfm_cback(Cur, tcb[i].att_lcid, mtu,
                                             TRUE)} :
         /\ r.tcb[i].payload_size =
              IF mtu = 0 THEN L2CAP_DEFAULT_MTU
              ELSE Min({mtu, L2CAP_DEFAULT_MTU})
         /\ r.tcb[i].payload_size <= L2CAP_DEFAULT_MTU

\* A configuration indication with an MTU below L2CAP_DEFAULT_MTU set the
\* payload size of a session to it.
C32_Witness ==
  /\ last.op = "gatt_l2cif_config_ind_cback"
  /\ \E i \in Dynamic :
       /\ tcb[i].peer_bda = last.arg
       /\ tcb[i].payload_size = 48

(***************************************************************************)
(* Properties of gatt_act_connect.                                         *)
(***************************************************************************)

\* The sessions that are closing.
Closing == {i \in Live : tcb[i].ch_state = GATT_CH_CLOSING}

\* C33: gatt_act_connect for the peer and transport of a session that is
\* closing returns false, calls nothing and changes nothing: the sessions,
\* the idle timeouts and the connections asked of the connection manager
\* are as before.
C33_ConnectRefusedWhileClosing ==
  \A i \in Closing, c \in Callers, l2c_lcid \in {0, 64}, le_ok \in BOOLEAN :
    \E r \in {gatt_act_connect(Cur, c, tcb[i].peer_bda, tcb[i].transport,
                               l2c_lcid, le_ok, TRUE)} :
      /\ ~r.ret
      /\ r.ev = <<>>
      /\ r.tcb = tcb
      /\ r.idle = idle
      /\ r.cm = cm
      /\ r.dcr = dcr

\* gatt_act_connect was called for a peer whose session is closing.
C33_Witness ==
  /\ last.op = "gatt_act_connect"
  /\ last.calls = {}
  /\ \E i \in Closing : tcb[i].peer_bda = last.arg


\* The peers and transports gatt_act_connect would allocate a block for.
Allocating ==
  {k \in Addrs \X Transports :
     /\ gatt_find_tcb_by_addr(Cur, k[1], k[2]) = NoTcb
     /\ AllocSlot(Cur, k[1], k[2]) # NoTcb}

\* C34: gatt_act_connect that allocates a block and whose connect request
\* the lower layer refuses (L2CA_ConnectReq2 returns 0,
\* acl_create_le_connection_with_id returns false) returns false and leaves
\* the table as it was before the call, the block reset.
C34_FailedConnectFreesBlock ==
  \A k \in Allocating, c \in Callers :
    \E r \in {gatt_act_connect(Cur, c, k[1], k[2], 0, FALSE, TRUE)} :
      /\ ~r.ret
      /\ r.tcb = tcb
      /\ r.tcb[AllocSlot(Cur, k[1], k[2])] = EmptyTcb

\* L2CAP refused the connect request of gatt_act_connect for a peer that had
\* no session, and the peer has none.
C34_Witness ==
  /\ last.op = "gatt_act_connect"
  /\ "L2CA_ConnectReq2" \in last.calls
  /\ last.arg \in Allocating


(***************************************************************************)
(* Properties of gatt_disconnect.                                          *)
(***************************************************************************)

\* C35: gatt_disconnect for a session that is closing returns true, calls
\* nothing (no second L2CA_RemoveFixedChnl or L2CA_DisconnectReq) and
\* changes nothing: the state and the holders of every session, the idle
\* timeouts and the connection manager are as before.
C35_DisconnectClosingIsNoOp ==
  \A i \in Closing :
    \E r \in {gatt_disconnect(Cur, i)} :
      /\ r.ret
      /\ r.ev = <<>>
      /\ r.tcb = tcb
      /\ r.idle = idle
      /\ r.cm = cm
      /\ r.dcr = dcr

\* gatt_disconnect was called for a session that is closing and that
\* applications still hold.
C35_Witness ==
  /\ last.op = "gatt_disconnect"
  /\ last.calls = {}
  /\ last.arg \in Closing
  /\ tcb[last.arg].app_hold_link # {}


(***************************************************************************)
(* Properties of the connect indication of the ATT channel.                *)
(***************************************************************************)

\* The sessions over BR/EDR.
Classic == {i \in Live : tcb[i].transport = BT_TRANSPORT_BR_EDR}

\* C36: gatt_l2cif_connect_ind_cback for a peer that has a session over
\* BR/EDR, in whatever state, answers with L2CA_DisconnectReq for the new
\* channel and nothing else, and changes nothing: the channel, state and
\* holders of the session, and every other session, are as before.
C36_SecondChannelRejected ==
  \A i \in Classic :
    \A lcid \in DynCids \ {tcb[i].att_lcid} :
      \E r \in {gatt_l2cif_connect_ind_cback(Cur, tcb[i].peer_bda, lcid)} :
        /\ r.ev = <<<<"L2CA_DisconnectReq", lcid>>>>
        /\ Untouched(r)

\* A connect indication was rejected although a block was free: the peer
\* had a session already, and that session still has its own channel.
C36_Witness ==
  /\ last.op = "gatt_l2cif_connect_ind_cback"
  /\ last.calls = {"L2CA_DisconnectReq"}
  /\ \E i \in Slots : ~tcb[i].in_use
  /\ \E i \in Classic : tcb[i].att_lcid # last.arg


(***************************************************************************)
(* Properties of the connection of the ATT fixed channel.                  *)
(***************************************************************************)

\* The sessions over LE that do not wait for the link: Open or Closing.
Connected ==
  {i \in Live : /\ tcb[i].transport = BT_TRANSPORT_LE
                /\ tcb[i].ch_state # GATT_CH_CONN}

\* C37: gatt_le_connect_cback(connected) for a peer whose session over LE
\* is not in Connecting changes no session, so no channel state, and calls
\* no connection callback.
C37_DuplicateConnectedIgnored ==
  \A i \in Connected :
    \E r \in {gatt_le_connect_cback(Cur, tcb[i].peer_bda, TRUE, GATT_CONN_OK,
                                    BT_TRANSPORT_LE, TRUE)} :
      /\ r.tcb = tcb
      /\ CallsAt(r, "conn_cb") = {}

\* The fixed channel of a peer was reported connected while the session of
\* the peer was closing, and no application was called.
C37_Witness ==
  /\ last.op = "gatt_le_connect_cback(connected)"
  /\ last.calls = {}
  /\ \E i \in Connected :
       tcb[i].peer_bda = last.arg /\ tcb[i].ch_state = GATT_CH_CLOSING


(***************************************************************************)
(* Properties of gatt_proc_srv_chg.                                        *)
(***************************************************************************)

\* The open sessions of the peer gatt_proc_srv_chg sends an indication for,
\* when pending are the sessions with one in the queue.
Indicated(a, pending) ==
  {i \in Live \ pending : /\ tcb[i].peer_bda = a
                          /\ tcb[i].ch_state = GATT_CH_OPEN
                          /\ ~interop_match_name(Cur, a)}

\* C38: gatt_proc_srv_chg sends a service changed indication to a peer only
\* for an open session of the peer that has none in its queue and whose
\* peer is not matched by the interoperability list, and sends the
\* connection of a peer at most one indication, none when its session has
\* one in the queue.
C38_OneIndicationOutstanding ==
  \A pending \in SUBSET Slots :
    \E r \in {gatt_proc_srv_chg(Cur, pending)} :
      \A a \in Addrs :
        /\ IndicationsTo(r, a) > 0 => Indicated(a, pending) # {}
        /\ IndicationsTo(r, a) <= 1
        /\ (\E i \in Live \cap pending :
              tcb[i].peer_bda = a /\ tcb[i].ch_state = GATT_CH_OPEN) =>
             IndicationsTo(r, a) = 0


(***************************************************************************)
(* Progress of the dynamic channel.                                        *)
(***************************************************************************)

\* C39: when L2CAP answers every connect request with a confirm or an error
\* and every channel in configuration with a configuration confirm or a
\* disconnect indication, a session over BR/EDR in Connecting or
\* Configuring is Open or Closed in the end, whatever the applications hold,
\* release or disconnect in the meantime.
C39_ConnectingEndsOpenOrClosed ==
  \A i \in Slots :
    (tcb[i].transport = BT_TRANSPORT_BR_EDR
     /\ tcb[i].ch_state \in {GATT_CH_CONN, GATT_CH_CFG})
      ~> (tcb[i].ch_state \in {GATT_CH_OPEN, GATT_CH_CLOSE})

\* The configuration confirm opened a session while another session waits
\* for the connect confirm.
C39_Witness ==
  /\ last.op = "gatt_l2cif_config_cfm_cback"
  /\ \E i \in Classic :
       tcb[i].att_lcid = last.arg /\ tcb[i].ch_state = GATT_CH_OPEN
  /\ \E i \in Classic : tcb[i].ch_state = GATT_CH_CONN


(***************************************************************************)
(* Properties of the control commands of the A2DP transport.               *)
(***************************************************************************)

\* C40: StartRequest and SuspendRequest never replace a pending command of
\* another kind: with another command pending they return FAILURE, with
\* their own command pending they return PENDING, and in both cases they
\* call nothing and leave a2dp_pending_cmd_ as it was.
C40_PendingCommandKept ==
  /\ \A call_idle \in BOOLEAN, lea_iso_active \in BOOLEAN,
        peer_is_src \in BOOLEAN :
       \E r \in {StartRequest(A2dpCur, call_idle, lea_iso_active,
                              peer_is_src)} :
         a2dp_pending_cmd_ # A2DP_CTRL_CMD_NONE =>
           /\ r.cmd = a2dp_pending_cmd_
           /\ r.ev = <<>>
           /\ r.ret = IF a2dp_pending_cmd_ = A2DP_CTRL_CMD_START
                      THEN "PENDING" ELSE "FAILURE"
  /\ \E r \in {SuspendRequest(A2dpCur)} :
       a2dp_pending_cmd_ # A2DP_CTRL_CMD_NONE =>
         /\ r.cmd = a2dp_pending_cmd_
         /\ r.ev = <<>>
         /\ r.ret = IF a2dp_pending_cmd_ = A2DP_CTRL_CMD_SUSPEND
                    THEN "PENDING" ELSE "FAILURE"

\* StartRequest was refused while a suspend was pending, and the suspend is
\* pending still.
C40_Witness ==
  /\ last.op = "StartRequest"
  /\ last.arg = "FAILURE"
  /\ last.calls = {}
  /\ active_hal_interface # "nullptr"
  /\ a2dp_pending_cmd_ = A2DP_CTRL_CMD_SUSPEND
====
